---------------------------- MODULE Spec2Model ----------------------------
(***************************************************************************)
(* Serverless request handlers of marketlinks-functions: the stock-rating *)
(* handlers (file-cache variant and Claude variant), the per-symbol        *)
(* earnings handlers with their ordered endpoint chain, and the pure       *)
(* recommendation helpers.                                                 *)
(*                                                                         *)
(* Numbers.  JavaScript numbers are modelled as integers in fixed point:   *)
(* money in cents, percentages and RSI in hundredths (30% is 3000).        *)
(* Divisions round the way the source's toFixed does where the source      *)
(* rounds, and truncate elsewhere.  null/undefined, NaN and Infinity are   *)
(* integers outside the range of every modelled quantity.                  *)
(* Time is counted in minutes (Date.now() / 60000).                        *)
(***************************************************************************)
EXTENDS Integers, Sequences, FiniteSets, TLC

\* ------------------------------------------------------------------------
\* JavaScript values

NULL == 0 - 1000000
NAN  == 0 - 1000001
INF  == 0 + 1000000
NEG_INF == 0 - 1000002

IsNum(x) == x \notin {NULL, NAN, INF, NEG_INF}

\* a null or undefined object (a record with none of an object's fields)
Absent == [absent |-> TRUE]

\* ToNumber for the relational operators: null is 0 (NaN stays NaN)
JsNum(x) == IF x = NULL THEN 0 ELSE x

\* a < b and a > b of JavaScript: false as soon as one side is NaN
JsLt(a, b) == a # NAN /\ b # NAN /\ JsNum(a) < JsNum(b)
JsGt(a, b) == a # NAN /\ b # NAN /\ JsNum(a) > JsNum(b)

\* truthiness of a number-or-null: null, undefined, NaN and 0 are falsy
Truthy(x) == x # NULL /\ x # NAN /\ x # 0

\* a || b
JsOr(a, b) == IF Truthy(a) THEN a ELSE b

Abs(x) == IF x < 0 THEN 0 - x ELSE x

\* n / d rounded to the nearest integer, halves away from zero (toFixed)
RoundDiv(n, d) ==
    IF n >= 0 THEN (2 * n + d) \div (2 * d)
              ELSE 0 - ((2 * (0 - n) + d) \div (2 * d))

\* n / d truncated toward zero
TruncDiv(n, d) == IF n >= 0 THEN n \div d ELSE 0 - ((0 - n) \div d)

\* a / b of JavaScript in hundredths of a percent: (a / b) * 100, truncated;
\* x / 0 is NaN for x = 0 and an infinity otherwise
Percent(a, b) ==
    IF b = 0 THEN (IF a = 0 THEN NAN ELSE INF)
    ELSE TruncDiv(a * 10000, b)

RECURSIVE SumSeq(_)
SumSeq(s) == IF s = <<>> THEN 0 ELSE Head(s) + SumSeq(Tail(s))

MaxSeq(s) == CHOOSE m \in {s[i] : i \in DOMAIN s} : \A i \in DOMAIN s : s[i] <= m
MinSeq(s) == CHOOSE m \in {s[i] : i \in DOMAIN s} : \A i \in DOMAIN s : m <= s[i]

Reverse(s) == [i \in 1..Len(s) |-> s[Len(s) + 1 - i]]

\* prices.slice(-period): the last `period` elements
LastN(s, n) == SubSeq(s, Len(s) - n + 1, Len(s))

Min2(a, b) == IF a < b THEN a ELSE b

\* ------------------------------------------------------------------------
\* Technical indicators (file-cache variant)

RSI_PERIOD == 14

\* fixed-point scale of the running averages of calculateRSI
AVG_SCALE == 100

\* 100 - 100 / (1 + avgGain / avgLoss), in hundredths
RsiOf(avgGain, avgLoss) ==
    IF avgLoss = 0 THEN (IF avgGain = 0 THEN NAN ELSE 10000)
    ELSE TruncDiv(10000 * avgGain, avgGain + avgLoss)

\* the smoothing loop of calculateRSI from index i (1-based) on
RECURSIVE RsiSmooth(_, _, _, _, _)
RsiSmooth(prices, period, i, avgGain, avgLoss) ==
    IF i > Len(prices) THEN RsiOf(avgGain, avgLoss)
    ELSE LET change == prices[i] - prices[i - 1]
             currentGain == IF change >= 0 THEN change ELSE 0
             currentLoss == IF change >= 0 THEN 0 ELSE 0 - change
             nextGain == (avgGain * (period - 1) + currentGain * AVG_SCALE) \div period
             nextLoss == (avgLoss * (period - 1) + currentLoss * AVG_SCALE) \div period
         IN \* both averages are sums of non-negative terms
            IF nextGain >= 0 /\ nextLoss >= 0
            THEN RsiSmooth(prices, period, i + 1, nextGain, nextLoss)
            ELSE NAN

\* prices in chronological order; the final RSI value, or null
calculateRSI(prices, period) ==
    IF Len(prices) < period + 1 THEN NULL
    ELSE LET changes == [i \in 1..period |-> prices[i + 1] - prices[i]]
             gains  == SumSeq([i \in 1..period |->
                                 IF changes[i] >= 0 THEN changes[i] ELSE 0])
             losses == SumSeq([i \in 1..period |->
                                 IF changes[i] >= 0 THEN 0 ELSE 0 - changes[i]])
         IN RsiSmooth(prices, period, period + 2,
                      (gains * AVG_SCALE) \div period,
                      (losses * AVG_SCALE) \div period)

\* mean of the last `period` elements of the array it is handed, or null
calculateMA(prices, period) ==
    IF Len(prices) < period THEN NULL
    ELSE IF period = 0 THEN NAN
    ELSE SumSeq(LastN(prices, period)) \div period

\* the second of the two declarations of calculatePercentChange, the one in
\* force: it reads the last element of the array as the recent price
calculatePercentChange(prices, days) ==
    IF Len(prices) < days THEN NULL
    ELSE LET recent == prices[Len(prices)]
             past   == prices[Len(prices) - days]
         IN Percent(recent - past, past)

calculateVolumeChange(priceHistory) ==
    IF Len(priceHistory) < 20 THEN NULL
    ELSE LET recentVolume == SumSeq([i \in 1..10 |-> priceHistory[i].volume])
             pastVolume   == SumSeq([i \in 1..10 |-> priceHistory[10 + i].volume])
         IN Percent(recentVolume - pastVolume, pastVolume)

\* priceHistory: bars newest first; high and low: the array's high52Week
\* and low52Week properties; at: Date.now()
calculateTechnicals(priceHistory, high, low, at) ==
    IF Len(priceHistory) < 14 THEN Absent
    ELSE LET closePrices  == [i \in 1..Len(priceHistory) |-> priceHistory[i].close]
             currentPrice == closePrices[1]
             high52Week   == JsOr(high, MaxSeq(closePrices))
             low52Week    == JsOr(low, MinSeq(closePrices))
             n            == Len(closePrices)
         IN [rsi   |-> calculateRSI(Reverse(closePrices), RSI_PERIOD),
             sma20 |-> calculateMA(closePrices, 20),
             sma50 |-> calculateMA(closePrices, 50),
             sma200 |-> calculateMA(closePrices, Min2(200, n)),
             priceChange1d |-> calculatePercentChange(closePrices, 1),
             priceChange1m |-> calculatePercentChange(closePrices, Min2(20, n - 1)),
             priceChange3m |-> calculatePercentChange(closePrices, Min2(60, n - 1)),
             volumeChange  |-> calculateVolumeChange(priceHistory),
             high52Week |-> high52Week,
             low52Week  |-> low52Week,
             distanceFromHigh |-> Percent(high52Week - currentPrice, high52Week),
             distanceFromLow  |-> Percent(currentPrice - low52Week, low52Week),
             currentPrice |-> currentPrice,
             lastUpdated  |-> at]

\* ------------------------------------------------------------------------
\* Fallback heuristic (file-cache variant)

\* the thresholds and multipliers of generateFallbackRecommendation,
\* in hundredths
RSI_OVERSOLD   == 3000
RSI_OVERBOUGHT == 7000
DROP_1M        == 0 - 500
RISE_1M        == 1000
BUY_FACTOR     == 115
SELL_FACTOR    == 90
HOLD_FACTOR    == 105

\* data.priceHistory?.[data.priceHistory.length - 1]?.close || 0
LastClose(priceHistory) ==
    IF Len(priceHistory) = 0 THEN 0
    ELSE JsOr(priceHistory[Len(priceHistory)].close, 0)

generateFallbackRecommendation(data) ==
    LET currentPrice == LastClose(data.priceHistory)
        ta == data.technicalAnalysis
    IN  IF ta = Absent
        THEN [recommendation |-> "HOLD", reason |-> "insufficient",
              targetPrice |-> currentPrice, upside |-> 0, confidence |-> 30]
        ELSE IF /\ JsLt(ta.rsi, RSI_OVERSOLD)
                /\ JsLt(ta.priceChange1m, DROP_1M)
                /\ JsLt(ta.priceChange3m, 0)
        THEN [recommendation |-> "BUY", reason |-> "oversold",
              targetPrice |-> RoundDiv(currentPrice * BUY_FACTOR, 100),
              upside |-> 1500, confidence |-> 60]
        ELSE IF JsGt(ta.rsi, RSI_OVERBOUGHT) /\ JsGt(ta.priceChange1m, RISE_1M)
        THEN [recommendation |-> "SELL", reason |-> "overbought",
              targetPrice |-> RoundDiv(currentPrice * SELL_FACTOR, 100),
              upside |-> 0 - 1000, confidence |-> 60]
        ELSE LET exact100 == IF Truthy(ta.sma50) THEN ta.sma50 * 100
                             ELSE currentPrice * HOLD_FACTOR
             IN [recommendation |-> "HOLD", reason |-> "neutral",
                 targetPrice |-> RoundDiv(exact100, 100),
                 upside |-> IF currentPrice = 0
                            THEN (IF exact100 = 0 THEN NAN ELSE INF)
                            ELSE 10 * RoundDiv((exact100 - 100 * currentPrice) * 10,
                                               currentPrice),
                 confidence |-> 50]

\* ------------------------------------------------------------------------
\* Data aggregation (file-cache variant)

\* a / b as a plain ratio in hundredths
Ratio(a, b) ==
    IF ~IsNum(a) \/ ~IsNum(b) THEN NAN   \* a missing field is undefined
    ELSE IF b = 0 THEN (IF a = 0 THEN NAN ELSE INF)
    ELSE TruncDiv(a * 100, b)

extractEssentialQuoteData(quote) ==
    IF quote = Absent THEN Absent
    ELSE [price |-> quote.price, volume |-> quote.volume,
          yearHigh |-> quote.yearHigh, yearLow |-> quote.yearLow]

extractEssentialFinancials(incomeStatement) ==
    IF incomeStatement = Absent THEN Absent
    ELSE [date |-> incomeStatement.date, revenue |-> incomeStatement.revenue,
          netIncome |-> incomeStatement.netIncome, eps |-> incomeStatement.eps]

extractEssentialBalanceSheet(balanceSheet) ==
    IF balanceSheet = Absent THEN Absent
    ELSE [date |-> balanceSheet.date,
          totalAssets |-> balanceSheet.totalAssets,
          totalDebt |-> balanceSheet.totalDebt,
          debtToAssets |-> Ratio(balanceSheet.totalDebt, balanceSheet.totalAssets),
          currentRatio |-> Ratio(balanceSheet.totalCurrentAssets,
                                 balanceSheet.totalCurrentLiabilities)]

\* the comparator with its operands exchanged: oldest date first
RECURSIVE InsertByDateOldestFirst(_, _)
InsertByDateOldestFirst(bar, sorted) ==
    IF sorted = <<>> THEN <<bar>>
    ELSE IF Head(sorted).date > bar.date THEN <<bar>> \o sorted
    ELSE <<Head(sorted)>> \o InsertByDateOldestFirst(bar, Tail(sorted))

\* Array.prototype.sort with (a, b) => new Date(b.date) - new Date(a.date):
\* a stable sort, newest date first
RECURSIVE InsertByDate(_, _)
InsertByDate(bar, sorted) ==
    IF sorted = <<>> THEN <<bar>>
    ELSE IF Head(sorted).date < bar.date THEN <<bar>> \o sorted
    ELSE <<Head(sorted)>> \o InsertByDate(bar, Tail(sorted))

RECURSIVE SortNewestFirst(_)
SortNewestFirst(bars) ==
    IF bars = <<>> THEN <<>>
    ELSE LET n == Len(bars)
         IN InsertByDate(bars[n], SortNewestFirst(SubSeq(bars, 1, n - 1)))

\* the array extractPriceHistory returns, with its two added properties;
\* priceData: the parsed body of the price endpoint, today: the UTC day
extractPriceHistory(priceData, currentQuote, today) ==
    IF priceData.kind # "history"
    THEN [bars |-> <<>>, high52Week |-> NULL, low52Week |-> NULL]
    ELSE LET sorted == SortNewestFirst(priceData.historical)
             result ==
                 [i \in 1..Len(sorted) |->
                     [date |-> sorted[i].date, close |-> sorted[i].close,
                      volume |-> sorted[i].volume]]
             hasPrice == currentQuote # Absent /\ Truthy(currentQuote.price)
             merged ==
                 IF ~hasPrice THEN result
                 ELSE IF result = <<>> \/ result[1].date # today
                 THEN <<[date |-> today, close |-> currentQuote.price,
                         volume |-> JsOr(currentQuote.volume,
                                         IF result = <<>> THEN 0
                                         ELSE result[1].volume)]>> \o result
                 ELSE IF Abs(result[1].close - currentQuote.price) > 1
                 THEN [result EXCEPT ![1].close = currentQuote.price,
                                     ![1].volume =
                                         IF Truthy(currentQuote.volume)
                                         THEN currentQuote.volume ELSE @]
                 ELSE result
             closePrices == [i \in 1..Len(merged) |-> merged[i].close]
             quoteHigh == IF currentQuote = Absent THEN NULL ELSE currentQuote.yearHigh
             quoteLow  == IF currentQuote = Absent THEN NULL ELSE currentQuote.yearLow
         IN [bars |-> merged,
             high52Week |-> JsOr(quoteHigh, IF merged = <<>> THEN NEG_INF
                                            ELSE MaxSeq(closePrices)),
             low52Week  |-> JsOr(quoteLow, IF merged = <<>> THEN INF
                                           ELSE MinSeq(closePrices))]

\* what the four awaited bodies of fetchOptimizedData build, or Absent when
\* the try block throws (a rejected fetch, an unparseable body, indexing null)
BuildSnapshot(res, today, at) ==
    IF \/ \E e \in {"income", "balance", "prices", "quote"} : res[e].kind = "throw"
       \/ res.income.kind = "null" \/ res.balance.kind = "null"
    THEN Absent
    ELSE LET currentQuote == IF res.quote.kind = "rows" /\ res.quote.rows # <<>>
                             THEN res.quote.rows[1] ELSE Absent
             priceHistory == extractPriceHistory(res.prices, currentQuote, today)
             first(r) == IF r.kind = "rows" /\ r.rows # <<>> THEN r.rows[1]
                         ELSE Absent
         IN [fundamentals |-> extractEssentialFinancials(first(res.income)),
             balanceSheet |-> extractEssentialBalanceSheet(first(res.balance)),
             priceHistory |-> priceHistory.bars,
             high52Week   |-> priceHistory.high52Week,
             low52Week    |-> priceHistory.low52Week,
             currentQuote |-> extractEssentialQuoteData(currentQuote),
             fetchTime    |-> at,
             technicalAnalysis |-> Absent]

\* ------------------------------------------------------------------------
\* Serialisation, the two cache tiers and the model call (file-cache variant)

\* JSON.stringify writes NaN and the infinities as null
JsonNum(x) == IF x \in {NAN, INF, NEG_INF} THEN NULL ELSE x

JsonFields(r, numeric) ==
    IF r = Absent THEN Absent
    ELSE [f \in DOMAIN r |-> IF f \in numeric THEN JsonNum(r[f]) ELSE r[f]]

TechnicalFields ==
    {"rsi", "sma20", "sma50", "sma200", "priceChange1d", "priceChange1m",
     "priceChange3m", "volumeChange", "high52Week", "low52Week",
     "distanceFromHigh", "distanceFromLow", "currentPrice"}

\* JSON.parse(JSON.stringify(payload)) of { recommendation, fetchedData }:
\* the array properties high52Week / low52Week of priceHistory are not
\* written, non-finite numbers come back as null
Serialize(payload) ==
    [recommendation |->
        JsonFields(payload.recommendation, {"targetPrice", "upside", "confidence"}),
     fetchedData |->
        [payload.fetchedData EXCEPT
            !.balanceSheet = JsonFields(@, {"debtToAssets", "currentRatio"}),
            !.high52Week = NULL,
            !.low52Week = NULL,
            !.technicalAnalysis = JsonFields(@, TechnicalFields)]]

DEFAULT_TTL == 60
DATA_TTL == 5
AI_TTL == 60
DATA_FRESH == 5
FILE_HOURS == 24

\* memoryCache.get: the value returned, and the store after the call
\* (an expired entry is deleted by the read)
memoryCacheGet(cache, key, at) ==
    IF key \notin DOMAIN cache THEN Absent
    ELSE IF at > cache[key].expiry THEN Absent
    ELSE cache[key].value

memoryCacheAfterGet(cache, key, at) ==
    IF key \in DOMAIN cache /\ at > cache[key].expiry
    THEN [k \in DOMAIN cache \ {key} |-> cache[k]]
    ELSE cache

\* a set that stores nothing
memoryCacheSetDropped(cache, key, value, ttl, at) == cache

memoryCacheSet(cache, key, value, ttl, at) ==
    [k \in DOMAIN cache \cup {key} |->
        IF k = key THEN [value |-> value, expiry |-> at + ttl] ELSE cache[k]]

\* readFromFileCache: the parsed file, or null when the file is missing,
\* unreadable or not JSON
readFromFileCache(files, symbol, ioError) ==
    IF ioError \/ files[symbol].kind # "json" THEN Absent
    ELSE files[symbol]

\* a writeToFileCache that lets the error of a failing write escape
writeToFileCacheUncaught(files, symbol, data, outcome) ==
    [files |-> IF outcome = "ok"
               THEN [files EXCEPT ![symbol] =
                        [kind |-> "json", lastFetched |-> data.lastFetched,
                         data |-> Serialize(data.data)]]
               ELSE files,
     threw |-> outcome # "ok"]

\* writeToFileCache: the files after the call, and whether it threw; the
\* error of a failing write is caught and logged, the old file stays
writeToFileCache(files, symbol, data, outcome) ==
    [files |-> IF outcome = "ok"
               THEN [files EXCEPT ![symbol] =
                        [kind |-> "json", lastFetched |-> data.lastFetched,
                         data |-> Serialize(data.data)]]
               ELSE files,
     threw |-> FALSE]

\* a freshness test with the comparison turned round
isDataFreshReversed(timestamp, hoursValid, at) == at - timestamp >= hoursValid * 60

\* a freshness test that accepts an entry aged exactly hoursValid hours
isDataFreshInclusive(timestamp, hoursValid, at) == at - timestamp <= hoursValid * 60

isDataFresh(timestamp, hoursValid, at) == at - timestamp < hoursValid * 60

createResponse(statusCode, body, fromCache) ==
    [statusCode |-> statusCode,
     cacheControl |-> IF fromCache THEN "public, max-age=3600" ELSE "no-cache",
     body |-> IF "error" \in DOMAIN body THEN body ELSE Serialize(body)]

\* Number.prototype.toFixed(1) / toFixed(2) inside a template string
Fixed1(x) ==
    CASE x = NULL -> "undefined"
      [] x = NAN -> "NaN"
      [] x = INF -> "Infinity"
      [] x = NEG_INF -> "-Infinity"
      [] OTHER -> ToString(RoundDiv(x, 10))

getDataFingerprint(data) ==
    LET fundamentals == data.fundamentals
        ta == data.technicalAnalysis
        date == IF fundamentals = Absent THEN "undefined"
                ELSE ToString(fundamentals.date)
        rsi == IF ta = Absent THEN "undefined" ELSE Fixed1(ta.rsi)
        chg == IF ta = Absent THEN "undefined" ELSE Fixed1(ta.priceChange1m)
    IN date \o "_" \o rsi \o "_" \o chg

PredictionPrice(data) ==
    IF data.technicalAnalysis = Absent THEN 0
    ELSE JsOr(data.technicalAnalysis.currentPrice, 0)

\* a cache key that leaves the fingerprint and the price out
AiCacheKeyOfSymbol(data, symbol) == "ai_" \o symbol

AiCacheKey(data, symbol) ==
    "ai_" \o symbol \o "_" \o getDataFingerprint(data) \o "_"
          \o ToString(PredictionPrice(data))

\* the object built from a parsed model answer (lines 819-826)
formattedPrediction(prediction, currentPrice, at) ==
    LET tp == prediction.targetPrice
        derived == IF ~IsNum(tp) THEN NAN
                   ELSE IF currentPrice = 0
                        THEN (IF tp = 0 THEN NAN ELSE INF)
                        ELSE 10 * RoundDiv((tp - currentPrice) * 1000, currentPrice)
    IN [recommendation |-> prediction.recommendation,
        reason |-> prediction.reason,
        targetPrice |-> JsOr(tp, currentPrice),
        upside |-> IF Truthy(prediction.upside) THEN prediction.upside ELSE derived,
        upsideIsString |-> ~Truthy(prediction.upside),
        confidence |-> JsOr(prediction.confidence, 50),
        analysisTime |-> at]

\* ------------------------------------------------------------------------
\* State

VARIABLES
    fbData, fbResult,       \* input and result of the fallback heuristic
    now,                    \* Date.now(), in minutes
    ticks,                  \* how often the clock has advanced
    env,                    \* process.env: which credentials are configured
    memoryCache,            \* memoryCache.data: key -> [value, expiry]
    fileCache,              \* CACHE_DIR: upper-case symbol -> file
    heap,                   \* the fetchedData objects, shared by reference
    req,                    \* the invocations of the rating handler
    ea,                     \* the invocation of an earnings handler
    cal,                    \* the invocation of the earnings-calendar handler
    hd,                     \* the invocation of one of the other handlers
    hdCount,                \* how many of them have started
    hdEnv,                  \* process.env for the other handlers
    claudeCache,            \* the cache Map of the Claude rating variant
    fnIn,                   \* a pure function and its arguments
    fnOut                   \* what it returned

fbVars == <<fbData, fbResult>>

ratingVars == <<now, ticks, env, memoryCache, fileCache, heap, req>>

hdVars == <<hd, hdCount, hdEnv, claudeCache>>

fnVars == <<fnIn, fnOut>>

vars == <<fbData, fbResult, now, ticks, env, memoryCache, fileCache, heap, req, ea,
          cal, hd, hdCount, hdEnv, claudeCache, fnIn, fnOut>>

\* inputs of the heuristic: indicator values around each threshold, absent
\* ones included, and price series whose oldest bar differs from the newest
FbRsi    == {NULL, NAN, 2500, 3000, 5000, 7000, 7500}
FbChg1m  == {0 - 800, 0 - 500, 0, 1000, 1500}
FbChg3m  == {0 - 800, 0 - 300, 0, 400}
FbSma50  == {NULL, 9500}
FbCloses == {0, 10000, 10001, 20000}

FbHistories ==
    {<<>>} \cup {<<[date |-> 2, close |-> c, volume |-> 1]>> : c \in FbCloses}
           \cup {<<[date |-> 2, close |-> 12345, volume |-> 1],
                   [date |-> 1, close |-> c, volume |-> 1]>> : c \in FbCloses}

FbTechnicals ==
    {Absent} \cup [rsi : FbRsi, priceChange1m : FbChg1m,
                 priceChange3m : FbChg3m, sma50 : FbSma50]

NoResult == [recommendation |-> "none"]

FbApply ==
    /\ fbResult = NoResult
    /\ fbResult' = generateFallbackRecommendation(fbData)
    /\ UNCHANGED fbData

\* ------------------------------------------------------------------------
\* The rating handler, file-cache variant.
\*
\* readFromFileCache and writeToFileCache use the synchronous fs calls, so
\* the handler yields to other invocations only while a network request is
\* in flight: at the Promise.all of fetchOptimizedData and at the model
\* request of getAIPrediction.  Each action below is one such run.

NReq == 2
MaxTicks == 2
Reqs == 1..NReq
TickMinutes == {5, 60, 1380}

NoSymbol == ""
QuerySymbols == {NoSymbol, "aapl", "AAPL"}
UpperSymbols == {"AAPL"}

toUpperCase(symbol) ==
    CASE symbol = "aapl" -> "AAPL"
      [] OTHER -> symbol

\* the bodies the market-data provider may answer with
RawBars(today, closes) ==
    [i \in 1..Len(closes) |->
        [date |-> today - i, close |-> closes[i], volume |-> 1000 + i]]

ShortCloses == <<9900, 9800>>
RiseCloses  == [i \in 1..13 |-> 10000 - 62 * i]
FlatCloses  == [i \in 1..14 |-> 10000]
CloseSeries == {ShortCloses, RiseCloses, FlatCloses}

IncomeRow(today) ==
    [date |-> today - 30, revenue |-> 1000, netIncome |-> 100, eps |-> 250]
BalanceRow(today) ==
    [date |-> today - 30, totalAssets |-> 2000, totalDebt |-> 500,
     totalCurrentAssets |-> 300, totalCurrentLiabilities |-> 200]
QuoteRow == [price |-> 10000, volume |-> 5000, yearHigh |-> 11000, yearLow |-> 9000]

ErrorBody == [kind |-> "object"]
Rejected  == [kind |-> "throw"]

GoodBodies(today, closes) ==
    [income  |-> [kind |-> "rows", rows |-> <<IncomeRow(today)>>],
     balance |-> [kind |-> "rows", rows |-> <<BalanceRow(today)>>],
     prices  |-> [kind |-> "history", historical |-> RawBars(today, closes)],
     quote   |-> [kind |-> "rows", rows |-> <<QuoteRow>>]]

ErrorBodies ==
    [income |-> ErrorBody, balance |-> ErrorBody, prices |-> ErrorBody,
     quote |-> ErrorBody]

RejectedBodies ==
    [income |-> Rejected, balance |-> Rejected, prices |-> Rejected,
     quote |-> Rejected]

\* without a key the provider answers every request with an error body
UpstreamBodies(keyConfigured, today) ==
    {ErrorBodies, RejectedBodies} \cup
    (IF keyConfigured THEN {GoodBodies(today, c) : c \in CloseSeries} ELSE {})

\* outcomes of the model request
FullAnswer ==
    [recommendation |-> "BUY", reason |-> "llm", targetPrice |-> 12000,
     upside |-> 2000, confidence |-> 80]
EmptyAnswer ==
    [recommendation |-> "", reason |-> "", targetPrice |-> NULL,
     upside |-> NULL, confidence |-> NULL]

LlmFailures == {[kind |-> "transport"], [kind |-> "non2xx"], [kind |-> "unparseable"]}
LlmAnswers == {[kind |-> "answer", prediction |-> FullAnswer],
               [kind |-> "answer", prediction |-> EmptyAnswer]}
LlmOutcomes(keyConfigured) ==
    {[kind |-> "transport"], [kind |-> "non2xx"]} \cup
    (IF keyConfigured THEN LlmAnswers \cup {[kind |-> "unparseable"]} ELSE {})

WriteOutcomes == {"ok", "failed"}

\* a file left in CACHE_DIR by an earlier process: the payload that process
\* stored 23 hours before this one started
PriorTime == 0 - 1380
PriorFile ==
    LET today == PriorTime \div 1440
        fetchedData == BuildSnapshot(GoodBodies(today, ShortCloses), today, PriorTime)
        prediction == formattedPrediction(FullAnswer, PredictionPrice(fetchedData),
                                          PriorTime)
    IN writeToFileCache([s \in UpperSymbols |-> [kind |-> "missing"]], "AAPL",
                        [lastFetched |-> PriorTime,
                         data |-> [recommendation |-> prediction,
                                   fetchedData |-> fetchedData]], "ok").files["AAPL"]

NoResp == [statusCode |-> 0]
NoFacts == [none |-> TRUE]

IdleReq ==
    [pc |-> "idle", symbol |-> NoSymbol, obj |-> 0,
     aiKey |-> "", aiPrice |-> 0, resp |-> NoResp,
     \* history of the invocation, kept for the properties
     log |-> <<>>, overlapped |-> FALSE, memorySeen |-> NoFacts,
     fileSeen |-> NoFacts, bodies |-> NoFacts,
     llm |-> NoFacts, writeOutcome |-> "none", prediction |-> NoFacts,
     tiers |-> NoFacts, aiSeen |-> NoFacts]

Active(q) == q.pc \notin {"idle", "done"}

\* the payload a memory entry stands for: a live { recommendation,
\* fetchedData } object, or the value parsed from the file
Deref(hp, value) ==
    [recommendation |-> value.recommendation,
     fetchedData |-> IF value.ref = 0 THEN value.snap ELSE hp[value.ref]]

\* what the two tiers hold for a symbol
TierSnapshot(cache, files, hp, symbol, at) ==
    LET key == "prediction_" \o symbol
    IN [memory |-> IF key \in DOMAIN cache
                   THEN [expiry |-> cache[key].expiry, at |-> at,
                         payload |-> Serialize(Deref(hp, cache[key].value))]
                   ELSE NoFacts,
        file |-> files[symbol]]

\* lines 485-499: store the result in both tiers and answer 200
StoreAndRespond(q, prediction, cache, hp, files, writeOutcome, at) ==
    LET resultToReturn == [recommendation |-> prediction, fetchedData |-> hp[q.obj]]
        resultToStore == [lastFetched |-> at, data |-> resultToReturn]
        written == writeToFileCache(files, q.symbol, resultToStore, writeOutcome)
        cache2 == memoryCacheSet(cache, "prediction_" \o q.symbol,
                      [recommendation |-> prediction, ref |-> q.obj, snap |-> Absent],
                      DEFAULT_TTL, at)
        q1 == [q EXCEPT !.pc = "done", !.log = Append(@, "write"),
                        !.writeOutcome = writeOutcome,
                        !.prediction = prediction]
    IN IF written.threw
       THEN \* the catch of the handler, lines 500-503
            [req |-> [q1 EXCEPT !.resp = createResponse(500,
                                    [error |-> "write failed"], FALSE)],
             cache |-> cache, heap |-> hp, files |-> written.files]
       ELSE [req |-> [q1 EXCEPT !.resp = createResponse(200, resultToReturn, FALSE)],
             cache |-> cache2, heap |-> hp, files |-> written.files]

\* lines 479-482 and 769-802: compute the indicators on the fetched object,
\* then reuse a cached model answer or send the model request
Predict(q, cache, hp, files, writeOutcome, at) ==
    LET obj == hp[q.obj]
        hp2 == [hp EXCEPT ![q.obj].technicalAnalysis =
                   calculateTechnicals(obj.priceHistory, obj.high52Week,
                                       obj.low52Week, at)]
        data == hp2[q.obj]
        cacheKey == AiCacheKey(data, q.symbol)
        cachedPrediction == memoryCacheGet(cache, cacheKey, at)
        cache2 == memoryCacheAfterGet(cache, cacheKey, at)
        q1 == [q EXCEPT !.aiKey = cacheKey,
                        !.aiSeen = IF cacheKey \in DOMAIN cache
                                   THEN [expiry |-> cache[cacheKey].expiry, at |-> at,
                                         rec |-> cache[cacheKey].value.rec]
                                   ELSE [missing |-> TRUE]]
    IN IF cachedPrediction # Absent
       THEN StoreAndRespond(q1, cachedPrediction.rec, cache2, hp2, files,
                            writeOutcome, at)
       ELSE [req |-> [q1 EXCEPT !.pc = "llm",
                                !.aiPrice = PredictionPrice(data),
                                !.log = Append(@, "llm")],
             cache |-> cache2, heap |-> hp2, files |-> files]

\* lines 454-476 and 552-572: memory tier, file tier, then the data cache
\* of fetchOptimizedData or the four upstream requests
Lookup(q, cache, hp, files, ioError, writeOutcome, at) ==
    LET cacheKey == "prediction_" \o q.symbol
        cachedResult == memoryCacheGet(cache, cacheKey, at)
        cache1 == memoryCacheAfterGet(cache, cacheKey, at)
        cachedData == readFromFileCache(files, q.symbol, ioError)
        dataKey == "data_" \o q.symbol
        cachedObj == memoryCacheGet(cache1, dataKey, at)
        cache2 == memoryCacheAfterGet(cache1, dataKey, at)
        q1 == [q EXCEPT !.log = Append(@, "memory")]
        q2 == [q1 EXCEPT !.log = Append(@, "file"),
                         !.fileSeen = [file |-> files[q.symbol], ioError |-> ioError,
                                       at |-> at]]
    IN IF cachedResult # Absent
       THEN [req |-> [q1 EXCEPT !.pc = "done",
                        !.resp = createResponse(200, Deref(hp, cachedResult), TRUE)],
             cache |-> cache1, heap |-> hp, files |-> files]
       ELSE IF cachedData # Absent /\ isDataFresh(cachedData.lastFetched, FILE_HOURS, at)
       THEN [req |-> [q2 EXCEPT !.pc = "done",
                        !.resp = createResponse(200, cachedData.data, TRUE)],
             cache |-> memoryCacheSet(cache1, cacheKey,
                          [recommendation |-> cachedData.data.recommendation,
                           ref |-> 0, snap |-> cachedData.data.fetchedData],
                          DEFAULT_TTL, at),
             heap |-> hp, files |-> files]
       ELSE IF cachedObj # Absent /\ at - hp[cachedObj.ref].fetchTime < DATA_FRESH
       THEN Predict([q2 EXCEPT !.obj = cachedObj.ref], cache2, hp, files,
                    writeOutcome, at)
       ELSE [req |-> [q2 EXCEPT !.pc = "fetching", !.log = Append(@, "upstream")],
             cache |-> cache2, heap |-> hp, files |-> files]

\* the state after a run of invocation r; a finished invocation records what
\* the tiers hold at the moment it answers
Commit(r, res, overlap) ==
    LET q == IF res.req.pc = "done" /\ res.req.symbol # NoSymbol
             THEN [res.req EXCEPT !.tiers =
                      TierSnapshot(res.cache, res.files, res.heap, res.req.symbol, now)]
             ELSE res.req
    IN /\ req' = [x \in Reqs |->
                    IF x = r THEN [q EXCEPT !.overlapped = @ \/ overlap]
                    ELSE IF overlap /\ Active(req[x])
                         THEN [req[x] EXCEPT !.overlapped = TRUE]
                         ELSE req[x]]
       /\ memoryCache' = res.cache
       /\ heap' = res.heap
       /\ fileCache' = res.files

Unchanged(q) == [req |-> q, cache |-> memoryCache, heap |-> heap, files |-> fileCache]

\* an invocation arrives and runs up to its first network request
Begin(r, httpMethod, symbol, ioError, writeOutcome) ==
    /\ req[r].pc = "idle"
    /\ IF r = 1 THEN TRUE ELSE req[r - 1].pc # "idle"
    /\ IF ioError
       THEN symbol # NoSymbol /\ fileCache[toUpperCase(symbol)].kind = "json"
       ELSE TRUE
    /\ LET overlap == \E x \in Reqs : Active(req[x])
           q == req[r]
       IN IF httpMethod = "OPTIONS"
          THEN Commit(r, Unchanged([q EXCEPT !.pc = "done",
                     !.resp = [statusCode |-> 204, cacheControl |-> "public, max-age=300",
                               body |-> [empty |-> TRUE]]]), overlap)
          ELSE IF symbol = NoSymbol
          THEN Commit(r, Unchanged([q EXCEPT !.pc = "done",
                     !.resp = createResponse(400, [error |-> "Symbol is required."],
                                             FALSE)]), overlap)
          ELSE Commit(r,
                   Lookup([q EXCEPT !.symbol = toUpperCase(symbol),
                                    !.memorySeen =
                                        TierSnapshot(memoryCache, fileCache, heap,
                                                     toUpperCase(symbol), now).memory],
                          memoryCache, heap, fileCache, ioError, writeOutcome, now),
                   overlap)
    /\ UNCHANGED <<now, ticks, env>>

\* upstream requests that never settle
FetchDoneNeverSettling(r, bodies, writeOutcome) ==
    /\ req[r].pc = "fetching"
    /\ UNCHANGED ratingVars

\* the four upstream requests of fetchOptimizedData settle (lines 570-597,
\* 474-476), and the handler runs on to the model request
FetchDone(r, bodies, writeOutcome) ==
    /\ req[r].pc = "fetching"
    /\ bodies \in UpstreamBodies(env.FMP_API_KEY, now \div 1440)
    /\ LET result == BuildSnapshot(bodies, now \div 1440, now)
           q == [req[r] EXCEPT !.bodies = bodies]
       IN IF result = Absent
          THEN Commit(r, Unchanged([q EXCEPT !.pc = "done",
                     !.resp = createResponse(500,
                                  [error |-> "Failed to fetch stock data."], FALSE)]),
                      FALSE)
          ELSE LET hp == Append(heap, result)
                   cache == memoryCacheSet(memoryCache, "data_" \o q.symbol,
                                [ref |-> Len(hp)], DATA_TTL, now)
               IN Commit(r, Predict([q EXCEPT !.obj = Len(hp)], cache, hp,
                                    fileCache, writeOutcome, now), FALSE)
    /\ UNCHANGED <<now, ticks, env>>

\* a getAIPrediction that stores the fallback under the fingerprint key too
LlmDoneCachingFallback(r, outcome, writeOutcome) ==
    /\ req[r].pc = "llm"
    /\ outcome \in LlmOutcomes(env.OPENAI_API_KEY)
    /\ LET q == [req[r] EXCEPT !.llm = outcome]
           ok == outcome.kind = "answer"
           prediction ==
               IF ok THEN formattedPrediction(outcome.prediction, q.aiPrice, now)
               ELSE generateFallbackRecommendation(heap[q.obj])
           cache == memoryCacheSet(memoryCache, q.aiKey, [rec |-> prediction],
                                   AI_TTL, now)
       IN Commit(r, StoreAndRespond(q, prediction, cache, heap, fileCache,
                                    writeOutcome, now), FALSE)
    /\ UNCHANGED <<now, ticks, env>>

\* a getAIPrediction that sends the model request again after a failure
LlmDoneRetrying(r, outcome, writeOutcome) ==
    /\ req[r].pc = "llm"
    /\ outcome \in LlmOutcomes(env.OPENAI_API_KEY)
    /\ LET q == [req[r] EXCEPT !.llm = outcome]
           ok == outcome.kind = "answer"
           prediction ==
               IF ok THEN formattedPrediction(outcome.prediction, q.aiPrice, now)
               ELSE generateFallbackRecommendation(heap[q.obj])
           cache == IF ok THEN memoryCacheSet(memoryCache, q.aiKey,
                                   [rec |-> prediction], AI_TTL, now)
                    ELSE memoryCache
       IN IF ~ok /\ Len(q.log) < 6
          THEN Commit(r, Unchanged([q EXCEPT !.log = Append(@, "llm")]), FALSE)
          ELSE Commit(r, StoreAndRespond(q, prediction, cache, heap, fileCache,
                                         writeOutcome, now), FALSE)
    /\ UNCHANGED <<now, ticks, env>>

\* the model request settles (lines 804-837), and the handler runs to its end
LlmDone(r, outcome, writeOutcome) ==
    /\ req[r].pc = "llm"
    /\ outcome \in LlmOutcomes(env.OPENAI_API_KEY)
    /\ LET q == [req[r] EXCEPT !.llm = outcome]
           ok == outcome.kind = "answer"
           prediction ==
               IF ok THEN formattedPrediction(outcome.prediction, q.aiPrice, now)
               ELSE generateFallbackRecommendation(heap[q.obj])
           cache == IF ok THEN memoryCacheSet(memoryCache, q.aiKey,
                                   [rec |-> prediction], AI_TTL, now)
                    ELSE memoryCache
       IN Commit(r, StoreAndRespond(q, prediction, cache, heap, fileCache,
                                    writeOutcome, now), FALSE)
    /\ UNCHANGED <<now, ticks, env>>

\* The clock counts minutes and an invocation lasts seconds, so the clock
\* advances between invocations: after the first, while one is still to come
Tick(d) ==
    /\ ticks < MaxTicks
    /\ \A r \in Reqs : ~Active(req[r])
    /\ req[1].pc = "done"
    /\ \E r \in Reqs : req[r].pc = "idle"
    /\ now' = now + d
    /\ ticks' = ticks + 1
    /\ UNCHANGED <<env, memoryCache, fileCache, heap, req>>

\* ------------------------------------------------------------------------
\* The earnings handlers: ai-earnings.js (lines 4-206, "v1"), its next-quarter
\* variant (lines 211-534, "v2") and the corrected handler of part_003.
\* Dates are day numbers in a calendar of twelve 30-day months.

YearOf(d) == d \div 360
QuarterOf(d) == ((d % 360) \div 90) + 1

\* parsed JSON bodies
JsonNull == [type |-> "null"]
JsonObject == [type |-> "object"]
JsonArray(items) == [type |-> "array", items |-> items]

IsNonEmptyArray(body) == body.type = "array" /\ body.items # <<>>

\* !data || data.length === 0, for a variable holding a parsed body
NoData(body) == body.type = "null" \/ (body.type = "array" /\ body.items = <<>>)

\* the three mappers of the chain; v1 and v2 keep the records of the first
\* endpoint as they come
MapCalendar(variant, symbol, item) ==
    IF variant = "part_003"
    THEN [date |-> item.date, symbol |-> symbol, eps |-> item.eps,
          epsEstimated |-> item.epsEstimated, revenue |-> item.revenue,
          revenueEstimated |-> item.revenueEstimated,
          surprisePercentage |-> item.surprisePercentage]
    ELSE item

MapSurprise(variant, symbol, item) ==
    [date |-> item.date, symbol |-> symbol, eps |-> item.actualEps,
     epsEstimated |-> item.estimatedEps,
     revenue |-> IF variant = "part_003" THEN item.actualRevenue
                 ELSE JsOr(item.actualRevenue, NULL),
     revenueEstimated |-> IF variant = "part_003" THEN item.estimatedRevenue
                          ELSE JsOr(item.estimatedRevenue, NULL),
     surprisePercentage |-> item.surprisePercentage]

MapIncome(variant, symbol, item) ==
    [date |-> item.date, symbol |-> symbol, eps |-> item.eps,
     epsEstimated |-> NULL, revenue |-> item.revenue,
     revenueEstimated |-> NULL, surprisePercentage |-> NULL]

MapEndpoint(variant, name, symbol, items) ==
    [i \in 1..Len(items) |->
        CASE name = "A" -> MapCalendar(variant, symbol, items[i])
          [] name = "B" -> MapSurprise(variant, symbol, items[i])
          [] name = "C" -> MapIncome(variant, symbol, items[i])]

\* the endpoint that follows in the chain
Following(name) == CASE name = "A" -> "B" [] name = "B" -> "C" [] name = "C" -> "end"

\* a chain that tries every endpoint, whatever the earlier ones returned
ChainNextExhaustive(variant, name, found, data) == Following(name)

\* which endpoint the handler calls after the reply of endpoint `name` has
\* been processed; found: this reply was a non-empty array; data: the
\* variable holding the result so far
ChainNext(variant, name, found, data) ==
    IF variant = "part_003"
    THEN IF found THEN "end" ELSE Following(name)
    ELSE CASE name = "A" -> IF IsNonEmptyArray(data) THEN "end" ELSE "B"
           [] name = "B" -> IF NoData(data) THEN "C" ELSE "end"
           [] name = "C" -> "end"

\* query symbol, else the last path segment upper-cased, else the referer
SymbolToUse(event) ==
    IF event.symbol # "" THEN event.symbol
    ELSE IF event.pathLast # "" /\ event.pathLast # "ai-earnings"
         THEN toUpperCase(event.pathLast)
    ELSE event.referer

Take(seq, n) == SubSeq(seq, 1, Min2(n, Len(seq)))

RECURSIVE FilterSeq(_, _)
FilterSeq(seq, keep) ==
    IF seq = <<>> THEN <<>>
    ELSE IF Head(seq).date \in keep
         THEN <<Head(seq)>> \o FilterSeq(Tail(seq), keep)
         ELSE FilterSeq(Tail(seq), keep)

Dates(seq) == {seq[i].date : i \in DOMAIN seq}

\* annual grouping: of each year the record with the latest date (the first
\* of equal dates), in order of year
LatestPerYear(items) ==
    LET latest(y) == CHOOSE i \in DOMAIN items :
                        /\ YearOf(items[i].date) = y
                        /\ \A j \in DOMAIN items :
                              YearOf(items[j].date) = y =>
                                 \/ items[j].date < items[i].date
                                 \/ (items[j].date = items[i].date /\ i <= j)
        picked == {latest(y) : y \in {YearOf(items[i].date) : i \in DOMAIN items}}
    IN [k \in 1..Cardinality(picked) |->
          items[CHOOSE i \in picked :
                  Cardinality({j \in picked : YearOf(items[j].date) < YearOf(items[i].date)})
                     = k - 1]]

FormatHistorical(variant, symbol, period, item) ==
    LET base == [date |-> item.date, symbol |-> symbol,
                 fiscalPeriod |-> IF period = "annual"
                                  THEN [fy |-> YearOf(item.date)]
                                  ELSE [quarter |-> QuarterOf(item.date),
                                        year |-> YearOf(item.date)],
                 estimatedEps |-> item.epsEstimated, actualEps |-> item.eps,
                 surprisePercentage |-> item.surprisePercentage,
                 estimatedRevenue |-> item.revenueEstimated,
                 actualRevenue |-> item.revenue]
    IN IF variant = "v1" THEN base
       ELSE [f \in DOMAIN base \cup {"isUpcoming"} |->
                IF f = "isUpcoming" THEN FALSE ELSE base[f]]

\* lines 136-154 / 335-349 / 130-137: the records kept for the answer
FilteredData(variant, period, items, today) ==
    IF variant = "part_003"
    THEN SortNewestFirst(FilterSeq(items, {d \in Dates(items) : d <= today}))
    ELSE SortNewestFirst(IF period = "annual" THEN LatestPerYear(items) ELSE items)

RecentFormatted(variant, symbol, period, filtered) ==
    LET recent == Take(filtered, IF variant = "v1" THEN 5 ELSE 3)
    IN [i \in 1..Len(recent) |-> FormatHistorical(variant, symbol, period, recent[i])]

\* the quarter after the one of the latest historical record
NextPeriod(lastDate) ==
    IF QuarterOf(lastDate) + 1 > 4
    THEN [quarter |-> 1, year |-> YearOf(lastDate) + 1]
    ELSE [quarter |-> QuarterOf(lastDate) + 1, year |-> YearOf(lastDate)]

NextQuarterRecord(symbol, date, fiscalPeriod, eps, revenue) ==
    [date |-> date, symbol |-> symbol, fiscalPeriod |-> fiscalPeriod,
     estimatedEps |-> eps, actualEps |-> NULL, surprisePercentage |-> NULL,
     estimatedRevenue |-> revenue, actualRevenue |-> NULL, isUpcoming |-> TRUE]

\* the placeholder three months after the latest record
Placeholder(symbol, lastDate) ==
    NextQuarterRecord(symbol, lastDate + 90, NextPeriod(lastDate), NULL, NULL)

\* the nearest future entry of the earnings calendar, if any
FromUpcoming(variant, symbol, lastDate, items, today) ==
    LET future == {i \in DOMAIN items : items[i].date > today}
        nearest == CHOOSE i \in future :
                      \A j \in future :
                         \/ items[i].date < items[j].date
                         \/ (items[i].date = items[j].date /\ i <= j)
    IN IF future = {} THEN Absent
       ELSE NextQuarterRecord(symbol, items[nearest].date,
                IF variant = "part_003" THEN NextPeriod(lastDate)
                ELSE [quarter |-> QuarterOf(items[nearest].date),
                      year |-> YearOf(items[nearest].date)],
                items[nearest].epsEstimated, NULL)

\* the placeholder filled from the analyst estimates: v2 takes the first
\* estimate of the next quarter and year, part_003 the last of the quarter;
\* without an estimate so found, both take the first estimate
FromEstimates(variant, symbol, lastDate, items) ==
    LET next == NextPeriod(lastDate)
        matches == {i \in DOMAIN items :
                       /\ items[i].quarter = next.quarter
                       /\ variant = "v2" => items[i].year = next.year}
        pick == IF variant = "v2"
                THEN CHOOSE i \in matches : \A j \in matches : i <= j
                ELSE CHOOSE i \in matches : \A j \in matches : i >= j
    IN IF matches = {}
       THEN NextQuarterRecord(symbol, lastDate + 90, next,
                              items[1].epsAvg, items[1].revenueAvg)
       ELSE NextQuarterRecord(symbol, lastDate + 90, next,
                              JsOr(items[pick].epsAvg, NULL),
                              JsOr(items[pick].revenueAvg, NULL))

\* inputs
EaToday == 10 * 100
EaVariants == {"v1", "v2", "part_003"}
EaEvents == [symbol : {"", "aapl"}, pathLast : {"ai-earnings", "msft"},
             referer : {"", "TSLA"}]
EaPeriods == {"quarterly", "annual"}

CalendarItem(d) ==
    [date |-> d, eps |-> 150, epsEstimated |-> 140, revenue |-> 5000,
     revenueEstimated |-> 4900, surprisePercentage |-> 7]
SurpriseItem(d) ==
    [date |-> d, actualEps |-> 150, estimatedEps |-> 140, actualRevenue |-> 0,
     estimatedRevenue |-> NULL, surprisePercentage |-> 7]
IncomeItem(d) == [date |-> d, eps |-> 150, revenue |-> 5000]

Thrown == [kind |-> "throw"]
Status(code) == [kind |-> "status", status |-> code]
Json(body) == [kind |-> "json", body |-> body]

Failures == {Thrown, Status(503), Json(JsonNull), Json(JsonObject), Json(JsonArray(<<>>))}

EaReplies(name) ==
    Failures \cup
    CASE name = "A" -> {Json(JsonArray(<<CalendarItem(900)>>)),
                        Json(JsonArray(<<CalendarItem(540), CalendarItem(900),
                                         CalendarItem(1080)>>))}
      [] name = "B" -> {Json(JsonArray(<<SurpriseItem(900)>>))}
      [] name = "C" -> {Json(JsonArray(<<IncomeItem(1080)>>)),
                        Json(JsonArray(<<IncomeItem(810), IncomeItem(900)>>))}
      [] name = "upcoming" ->
            {Json(JsonArray(<<[date |-> 1100, epsEstimated |-> 160],
                              [date |-> 1050, epsEstimated |-> 155]>>)),
             Json(JsonArray(<<[date |-> 950, epsEstimated |-> 150]>>))}
      [] name = "estimates" ->
            {Json(JsonArray(<<[quarter |-> 4, year |-> 2, epsAvg |-> 170,
                               revenueAvg |-> 6000],
                              [quarter |-> 4, year |-> 3, epsAvg |-> 180,
                               revenueAvg |-> 6100]>>)),
             Json(JsonArray(<<[quarter |-> 1, year |-> 2, epsAvg |-> 120,
                               revenueAvg |-> 4000]>>))}

EaIdle ==
    [pc |-> "idle", variant |-> "", keyConfigured |-> FALSE, period |-> "",
     symbol |-> "", data |-> JsonNull, filtered |-> <<>>, next |-> Absent,
     calls |-> <<>>, replies |-> <<>>, resp |-> NoResp]

EaRespond(q, statusCode, body) ==
    [q EXCEPT !.pc = "done",
              !.resp = [statusCode |-> statusCode, body |-> body,
                        \* only the 200 answers set the header
                        cacheControl |-> IF statusCode = 200
                                         THEN "public, max-age=3600" ELSE "absent"]]

EaCall(q, name) == [q EXCEPT !.pc = name, !.calls = Append(@, name)]

\* the 200 answer: the next quarter first, when there is one
EaSuccess(q) ==
    LET historical == RecentFormatted(q.variant, q.symbol, q.period, q.filtered)
    IN EaRespond(q, 200,
          [symbol |-> q.symbol, period |-> q.period,
           earnings |-> IF q.next = Absent THEN historical
                        ELSE <<q.next>> \o historical])

\* after the chain: 404 without data, else filter and sort, then the
\* next-quarter requests of v2 and part_003
EaAfterChain(q) ==
    IF NoData(q.data)
    THEN EaRespond(q, 404, [error |-> "No earnings data found", symbol |-> q.symbol,
                            noData |-> TRUE])
    ELSE IF q.data.type # "array"
    THEN \* forEach / sort of a value that is no array: the outer catch
         EaRespond(q, 500, [error |-> "Internal server error", symbol |-> q.symbol])
    ELSE LET filtered == FilteredData(q.variant, q.period, q.data.items, EaToday)
             q1 == [q EXCEPT !.filtered = filtered]
         IN IF q.variant # "v1" /\ q.period = "quarterly" /\ filtered # <<>>
            THEN EaCall(q1, "upcoming")
            ELSE EaSuccess(q1)

\* the prelude: credential, symbol, then the first endpoint
EaBegin(variant, keyConfigured, event, period) ==
    /\ ea.pc = "idle"
    /\ LET symbol == SymbolToUse(event)
           q == [ea EXCEPT !.variant = variant, !.keyConfigured = keyConfigured,
                           !.period = period, !.symbol = symbol,
                           !.data = IF variant = "part_003" THEN JsonArray(<<>>)
                                    ELSE JsonNull]
       IN ea' = IF ~keyConfigured
                THEN EaRespond(q, 500, [error |-> "API key is not configured"])
                ELSE IF symbol = ""
                THEN EaRespond(q, 400, [error |-> "Symbol parameter is required."])
                ELSE EaCall(q, "A")

\* the reply of a chain endpoint arrives
EaChainReply(name, reply) ==
    /\ ea.pc = name
    /\ reply \in EaReplies(name)
    /\ LET q == [ea EXCEPT !.replies = Append(@, reply)]
           found == reply.kind = "json" /\ IsNonEmptyArray(reply.body)
           q1 == IF found
                 THEN [q EXCEPT !.data = JsonArray(MapEndpoint(q.variant, name,
                                             q.symbol, reply.body.items))]
                 ELSE IF q.variant # "part_003" /\ name = "A" /\ reply.kind = "json"
                 THEN [q EXCEPT !.data = reply.body]
                 ELSE q
           next == ChainNext(q.variant, name, found, q1.data)
       IN ea' = IF q.variant # "part_003" /\ reply.kind = "throw"
                THEN EaRespond(q, 500, [error |-> "Internal server error",
                                        symbol |-> q.symbol])
                ELSE IF q.variant # "part_003" /\ name = "A" /\ reply.kind = "status"
                THEN EaRespond(q, reply.status,
                               [error |-> "Financial API returned an error",
                                symbol |-> q.symbol])
                ELSE IF next = "end" THEN EaAfterChain(q1)
                ELSE EaCall(q1, next)

\* the reply of the earnings calendar of upcoming dates arrives
EaUpcomingReply(reply) ==
    /\ ea.pc = "upcoming"
    /\ reply \in EaReplies("upcoming")
    /\ LET q == [ea EXCEPT !.replies = Append(@, reply)]
           lastDate == q.filtered[1].date
           next == IF reply.kind = "json" /\ IsNonEmptyArray(reply.body)
                   THEN FromUpcoming(q.variant, q.symbol, lastDate,
                                     reply.body.items, EaToday)
                   ELSE Absent
       IN ea' = IF reply.kind = "throw" THEN EaSuccess(q)
                ELSE IF next # Absent THEN EaSuccess([q EXCEPT !.next = next])
                ELSE EaCall(q, "estimates")

\* the reply of the analyst estimates arrives
EaEstimatesReply(reply) ==
    /\ ea.pc = "estimates"
    /\ reply \in EaReplies("estimates")
    /\ LET q == [ea EXCEPT !.replies = Append(@, reply)]
           lastDate == q.filtered[1].date
       IN ea' = IF reply.kind = "throw" THEN EaSuccess(q)
                ELSE IF reply.kind = "json" /\ IsNonEmptyArray(reply.body)
                THEN EaSuccess([q EXCEPT !.next =
                        FromEstimates(q.variant, q.symbol, lastDate, reply.body.items)])
                ELSE EaSuccess([q EXCEPT !.next = Placeholder(q.symbol, lastDate)])

\* ------------------------------------------------------------------------
\* The other handlers: how each validates a request, which upstream requests
\* it sends and what it answers.  The sequential market-data requests of one
\* handler share one catch block and are taken as one exchange.

\* a response: its status and the keys of its JSON body ({} for an empty
\* body, "data" for a payload passed on)
Respond(statusCode, body) ==
    [kind |-> "respond", statusCode |-> statusCode, body |-> body]
CallUpstream(to) == [kind |-> "call", to |-> to]

Handlers ==
    {"claude-rating", "fmp-proxy", "bull-bear", "ai-risk", "fmp-api",
     "fmp-api-keyed", "anthropic-proxy", "benzinga-earnings", "benzinga-news",
     "firebase", "fetch-api-key"}

\* the handlers whose responses carry no Access-Control-Allow-Origin header
NoCorsHandlers == {"fmp-proxy", "fetch-api-key"}

\* the handlers that read their parameter from the JSON body
BodyHandlers == {"fmp-proxy", "fmp-api", "fmp-api-keyed", "anthropic-proxy"}

\* query: "null" (no query object), "none" (no parameter), "param";
\* body: "unparseable", "null" (the JSON text null), "none" (an object
\* without the parameter), "param"
HdEvents(handler) ==
    IF handler \in BodyHandlers
    THEN [httpMethod : {"POST", "OPTIONS"}, query : {"none"},
          body : {"unparseable", "null", "none", "param"}]
    ELSE [httpMethod : {"GET", "OPTIONS"}, query : {"null", "none", "param"},
          body : {"null"}]

CACHE_DURATION == 60

\* fetch-stock-ai-rating.js, Claude variant, lines 18-54
ClaudePrelude(event, keys, cache, at) ==
    LET symbol == IF event.query = "param" THEN "AAPL" ELSE "BA"
    IN IF event.httpMethod = "OPTIONS" THEN Respond(200, {"message"})
       ELSE IF symbol \in DOMAIN cache /\ at - cache[symbol].timestamp < CACHE_DURATION
       THEN Respond(200, {"data"})
       ELSE IF ~keys.FMP_API_KEY THEN Respond(500, {"error", "message"})
       ELSE IF ~keys.ANTHROPIC_API_KEY THEN Respond(500, {"error", "message"})
       ELSE CallUpstream("market")

\* benzinga-bull-bear.js, fmp-proxy, lines 102-111: no preflight branch, no
\* key check, JSON.parse inside the one try block
FmpProxyPrelude(event) ==
    IF event.httpMethod = "OPTIONS" \/ event.body \in {"unparseable", "null"}
    THEN Respond(500, {"error"})
    ELSE CallUpstream("upstream")

\* benzinga-bull-bear.js lines 13-42: the key falls back to a literal
BullBearPrelude(event) ==
    IF event.httpMethod = "OPTIONS" THEN Respond(200, {})
    ELSE IF event.query # "param" THEN Respond(400, {"error"})
    ELSE CallUpstream("upstream")

\* part_005 lines 17-57
AiRiskPrelude(event, keys) ==
    IF event.httpMethod = "OPTIONS" THEN Respond(200, {"message"})
    ELSE IF ~keys.FMP_API_KEY THEN Respond(500, {"error"})
    ELSE IF ~keys.OPENAI_API_KEY THEN Respond(500, {"error"})
    ELSE IF event.query = "null" THEN Respond(500, {"error", "details"})
    ELSE IF event.query = "none" THEN Respond(400, {"error"})
    ELSE CallUpstream("market")

\* part_000 lines 6-70: the body is read inside the inner try
FmpApiPrelude(event) ==
    IF event.httpMethod = "OPTIONS" THEN Respond(200, {})
    ELSE IF event.body \in {"unparseable", "null"} THEN Respond(400, {"error"})
    ELSE IF event.body = "none" THEN Respond(400, {"error"})
    ELSE CallUpstream("upstream")

\* part_000 lines 102-181: the endpoint is destructured outside the inner try
FmpApiKeyedPrelude(event, keys) ==
    IF event.httpMethod = "OPTIONS" THEN Respond(200, {})
    ELSE IF ~keys.FMP_API_KEY THEN Respond(500, {"error"})
    ELSE IF event.body = "unparseable" THEN Respond(400, {"error"})
    ELSE IF event.body = "null" THEN Respond(500, {"error", "details"})
    ELSE IF event.body = "none" THEN Respond(400, {"error"})
    ELSE CallUpstream("upstream")

\* part_002 lines 6-78
AnthropicProxyPrelude(event, keys) ==
    IF event.httpMethod = "OPTIONS" THEN Respond(200, {})
    ELSE IF ~keys.ANTHROPIC_API_KEY THEN Respond(500, {"error"})
    ELSE IF event.body = "unparseable" THEN Respond(400, {"error"})
    ELSE IF event.body = "null" THEN Respond(500, {"error", "details"})
    ELSE IF event.body = "none" THEN Respond(400, {"error"})
    ELSE CallUpstream("upstream")

\* earnings.js lines 284-321 (benzinga-earnings)
BenzingaEarningsPrelude(event, keys) ==
    IF event.httpMethod = "OPTIONS" THEN Respond(200, {"message"})
    ELSE IF event.query # "param" THEN Respond(400, {"error", "noData"})
    ELSE IF ~keys.BENZINGA_API_KEY THEN Respond(500, {"error", "noData"})
    ELSE CallUpstream("upstream")

\* part_001 lines 95-129 (benzinga-news): the ticker is optional and the key
\* a literal
BenzingaNewsPrelude(event) ==
    IF event.httpMethod = "OPTIONS" THEN Respond(200, {})
    ELSE CallUpstream("upstream")

\* firebase.js lines 2-34: the configuration, whatever the method
FirebasePrelude(event) == Respond(200, {"config"})

\* fetch-api-key.js lines 2-33: no preflight branch
FetchApiKeyPrelude(event, keys) ==
    IF ~keys.FMP_API_KEY THEN Respond(500, {"error"})
    ELSE Respond(200, {"message", "maskedKey", "keyLength"})

Prelude(handler, event, keys, cache, at) ==
    CASE handler = "claude-rating" -> ClaudePrelude(event, keys, cache, at)
      [] handler = "fmp-proxy" -> FmpProxyPrelude(event)
      [] handler = "bull-bear" -> BullBearPrelude(event)
      [] handler = "ai-risk" -> AiRiskPrelude(event, keys)
      [] handler = "fmp-api" -> FmpApiPrelude(event)
      [] handler = "fmp-api-keyed" -> FmpApiKeyedPrelude(event, keys)
      [] handler = "anthropic-proxy" -> AnthropicProxyPrelude(event, keys)
      [] handler = "benzinga-earnings" -> BenzingaEarningsPrelude(event, keys)
      [] handler = "benzinga-news" -> BenzingaNewsPrelude(event)
      [] handler = "firebase" -> FirebasePrelude(event)
      [] handler = "fetch-api-key" -> FetchApiKeyPrelude(event, keys)

\* what the handler does with the outcome of its data request: the catch
\* block of each handler
OnUpstream(handler, outcome) ==
    CASE handler = "claude-rating" ->
            IF outcome.kind = "ok" THEN CallUpstream("llm")
            ELSE Respond(500, {"error", "message"})
      [] handler = "ai-risk" ->
            IF outcome.kind = "ok" THEN CallUpstream("llm")
            ELSE IF outcome.kind = "empty" THEN Respond(404, {"error"})
            ELSE Respond(500, {"error", "details"})
      [] handler = "fmp-proxy" ->
            IF outcome.kind \in {"ok", "empty"} THEN Respond(200, {"data"})
            ELSE Respond(500, {"error"})
      [] handler \in {"bull-bear", "fmp-api"} ->
            IF outcome.kind \in {"ok", "empty"} THEN Respond(200, {"data"})
            ELSE Respond(500, {"error", "details"})
      [] handler \in {"fmp-api-keyed", "anthropic-proxy"} ->
            IF outcome.kind \in {"ok", "empty"} THEN Respond(200, {"data"})
            ELSE IF outcome.kind = "status"
            THEN Respond(outcome.status, {"error", "details", "response"})
            ELSE Respond(500, {"error", "details"})
      [] handler = "benzinga-news" ->
            IF outcome.kind \in {"ok", "empty"} THEN Respond(200, {"data"})
            ELSE IF outcome.kind = "status"
            THEN Respond(outcome.status, {"error", "details"})
            ELSE Respond(500, {"error", "details"})
      [] handler = "benzinga-earnings" ->
            IF outcome.kind = "ok" THEN Respond(200, {"earnings"})
            ELSE IF outcome.kind = "empty" THEN Respond(404, {"error", "noData"})
            ELSE IF outcome.kind = "status"
            THEN Respond(outcome.status, {"error", "noData"})
            ELSE Respond(503, {"error", "noData"})

\* Claude variant lines 225-260: the parsed answer, or the fixed fallback
ClaudeRecommendation(outcome, currentPrice) ==
    IF outcome.kind = "answer"
    THEN [recommendation |-> outcome.rating, targetPrice |-> outcome.targetPrice,
          confidence |-> outcome.confidence, note |-> ""]
    ELSE [recommendation |-> "HOLD",
          targetPrice |-> RoundDiv(currentPrice * 102, 100),
          confidence |-> 50, note |-> "fallback"]

HdOutcomes ==
    {[kind |-> "ok", price |-> 10000], [kind |-> "empty"],
     [kind |-> "status", status |-> 401], [kind |-> "transport"]}

\* the second answer is valid JSON whose rating and confidence the prompt
\* did not ask for
HdLlmOutcomes ==
    LlmFailures \cup
    {[kind |-> "answer", rating |-> "BUY", targetPrice |-> 12000, confidence |-> 80],
     [kind |-> "answer", rating |-> "STRONG BUY", targetPrice |-> 13000,
      confidence |-> 150]}

MaxInvocations == 2

HdIdle ==
    [pc |-> "idle", handler |-> "", event |-> NoFacts, calls |-> <<>>,
     resp |-> NoResp, currentPrice |-> 0, outcome |-> NoFacts, llm |-> NoFacts,
     recommendation |-> NoFacts]

HdAnswer(q, statusCode, body) ==
    [q EXCEPT !.pc = "done",
              !.resp = [statusCode |-> statusCode, body |-> body,
                        error |-> "error" \in body,
                        cors |-> q.handler \notin NoCorsHandlers]]

HdStep(q, step) ==
    IF step.kind = "respond" THEN HdAnswer(q, step.statusCode, step.body)
    ELSE [q EXCEPT !.pc = step.to, !.calls = Append(@, step.to)]

\* Claude variant lines 30-40: the stored answer a cache hit serves
ClaudeCached(handler, event, cache, at) ==
    LET symbol == IF event.query = "param" THEN "AAPL" ELSE "BA"
    IN IF /\ handler = "claude-rating" /\ event.httpMethod # "OPTIONS"
          /\ symbol \in DOMAIN cache
          /\ at - cache[symbol].timestamp < CACHE_DURATION
       THEN cache[symbol].data
       ELSE NoFacts

\* an invocation of one of the handlers arrives
HdBegin(handler, event) ==
    /\ hd.pc \in {"idle", "done"}
    /\ hdCount < MaxInvocations
    /\ event \in HdEvents(handler)
    /\ hdCount' = hdCount + 1
    /\ hd' = HdStep([HdIdle EXCEPT !.handler = handler, !.event = event,
                                   !.recommendation =
                                       ClaudeCached(handler, event, claudeCache, 0)],
                    Prelude(handler, event, hdEnv, claudeCache, 0))
    /\ UNCHANGED <<hdEnv, claudeCache>>

\* the data request of the handler settles
HdUpstreamDone(outcome) ==
    /\ hd.pc \in {"market", "upstream"}
    /\ hd' = HdStep([hd EXCEPT !.outcome = outcome,
                               !.currentPrice =
                        IF outcome.kind = "ok" THEN outcome.price ELSE 0],
                    OnUpstream(hd.handler, outcome))
    /\ UNCHANGED <<hdEnv, claudeCache, hdCount>>

\* the model request of claude-rating or ai-risk settles; both answer 200,
\* claude-rating stores its answer under the symbol
HdLlmDone(outcome) ==
    /\ hd.pc = "llm"
    /\ LET recommendation ==
               IF hd.handler = "claude-rating"
               THEN ClaudeRecommendation(outcome, hd.currentPrice)
               ELSE NoFacts
           symbol == IF hd.event.query = "param" THEN "AAPL" ELSE "BA"
       IN /\ hd' = HdAnswer([hd EXCEPT !.llm = outcome,
                                       !.recommendation = recommendation],
                            200, {"data"})
          /\ claudeCache' =
                IF hd.handler = "claude-rating"
                THEN [s \in DOMAIN claudeCache \cup {symbol} |->
                         IF s = symbol
                         THEN [timestamp |-> 0, data |-> recommendation]
                         ELSE claudeCache[s]]
                ELSE claudeCache
    /\ UNCHANGED <<hdEnv, hdCount>>

\* ------------------------------------------------------------------------
\* The pure functions of the rating handler, each applied once to an input.

NoOutput == [none |-> TRUE]
FnIdle == fnIn = [fn |-> "none"] /\ fnOut = NoOutput

\* isDataFresh: entries written in the future, now, and around the one-hour
\* and 24-hour marks
FreshAges == {0 - 60, 0, 59, 60, 61, 1439, 1440, 1441, 1500}
FreshInputs ==
    {[fn |-> "isDataFresh", timestamp |-> at - age, hoursValid |-> h, at |-> at] :
        at \in {3000, 5000}, age \in FreshAges, h \in {1, 24}}

\* extractPriceHistory: histories ending today, yesterday or earlier, sorted
\* or not, and quotes with or without price and volume
MergeToday == 10
MergeBar(d, c) == [date |-> d, close |-> c, volume |-> 500 + d]
MergeHistories ==
    {<<>>,
     <<MergeBar(MergeToday, 10000)>>,
     <<MergeBar(MergeToday - 1, 9900)>>,
     <<MergeBar(MergeToday, 10000), MergeBar(MergeToday - 1, 9900)>>,
     <<MergeBar(MergeToday - 1, 9900), MergeBar(MergeToday, 10000)>>,
     <<MergeBar(MergeToday - 1, 9900), MergeBar(MergeToday - 2, 9800)>>,
     \* a bar dated after the server's UTC day, and a date listed twice
     <<MergeBar(MergeToday + 1, 10100), MergeBar(MergeToday, 10000)>>,
     <<MergeBar(MergeToday - 1, 9900), MergeBar(MergeToday - 1, 9950)>>}
MergeQuotes ==
    {Absent} \cup [price : {NULL, 10000, 10001, 10002}, volume : {NULL, 0, 7000},
                 yearHigh : {NULL, 11000}, yearLow : {9000}]
MergeInputs ==
    {[fn |-> "extractPriceHistory", priceData |-> p, currentQuote |-> q,
      today |-> MergeToday] :
        p \in {ErrorBody} \cup {[kind |-> "history", historical |-> h] :
                                  h \in MergeHistories},
        q \in MergeQuotes}

\* close series in chronological order, i = 1 the oldest of n
SeriesShapes == {"flat", "rising", "falling", "zigzag", "step"}
SeriesClose(shape, i, n) ==
    CASE shape = "flat" -> 10000
      [] shape = "rising" -> 10000 + 10 * i
      [] shape = "falling" -> 20000 - 10 * i
      [] shape = "zigzag" -> 10000 + 50 * (i % 3)
      [] shape = "step" -> IF i = n THEN 11000 ELSE 10000
Series(shape, n) == [i \in 1..n |-> SeriesClose(shape, i, n)]

\* the same series as bars, newest first, as extractPriceHistory returns them
SeriesBars(shape, n) ==
    [k \in 1..n |-> [date |-> 0 - k, close |-> SeriesClose(shape, n + 1 - k, n),
                     volume |-> 1000 + 7 * k]]

TechLengths == {13, 14, 15, 19, 20, 21, 22, 50, 51, 61, 62}
TechInputs ==
    {[fn |-> "calculateTechnicals", shape |-> s, priceHistory |-> SeriesBars(s, n)] :
        s \in SeriesShapes, n \in TechLengths}

RsiLengths == {14, 15, 16, 30}
RsiInputs ==
    {[fn |-> "calculateRSI", shape |-> s, prices |-> Series(s, n)] :
        s \in SeriesShapes, n \in RsiLengths}

\* fetchOptimizedData: the four bodies of a good answer with at most one
\* replaced by a rejected or unparseable one ("throw"), by the JSON text
\* null, or by an object of the wrong shape
Endpoints == {"income", "balance", "prices", "quote"}
FailureKinds == {Rejected, [kind |-> "null"], ErrorBody}
FetchInputs ==
    {[fn |-> "fetchOptimizedData", failed |-> "none",
      bodies |-> GoodBodies(MergeToday, ShortCloses)]} \cup
    {[fn |-> "fetchOptimizedData", failed |-> e,
      bodies |-> [GoodBodies(MergeToday, ShortCloses) EXCEPT ![e] = k]] :
        e \in Endpoints, k \in FailureKinds}

\* memoryCache: a set followed by a get of the same key, before, at and
\* after the expiry, with another entry in the store
CacheAges == {0, 4, 5, 6, 59, 60, 61}
CacheInputs ==
    {[fn |-> "memoryCache", key |-> "data_AAPL", ttl |-> t, setAt |-> at,
      getAt |-> at + age] :
        t \in {DATA_TTL, DEFAULT_TTL}, at \in {0, 100}, age \in CacheAges}

\* extractEssentialBalanceSheet: statements whose denominators are missing,
\* zero or positive
BalanceInputs ==
    {[fn |-> "extractEssentialBalanceSheet",
      balanceSheet |-> [date |-> MergeToday - 30, totalAssets |-> a, totalDebt |-> d,
                        totalCurrentAssets |-> c, totalCurrentLiabilities |-> l]] :
        a \in {NULL, 0, 2000}, d \in {0, 500}, c \in {0, 300}, l \in {NULL, 0, 200}}

\* the post-processing of a parsed answer: each numeric field missing (or
\* not a number), zero, or a number
PredictionInputs ==
    {[fn |-> "formattedPrediction", currentPrice |-> c,
      prediction |-> [recommendation |-> "BUY", reason |-> "llm",
                      targetPrice |-> t, upside |-> u, confidence |-> k]] :
        c \in {0, 10000}, t \in {NULL, 0, 12000}, u \in {NULL, 0, 2000},
        k \in {NULL, 0, 80}}

ApplyIsDataFresh ==
    /\ fnIn.fn = "isDataFresh" /\ fnOut = NoOutput
    /\ fnOut' = [value |-> isDataFresh(fnIn.timestamp, fnIn.hoursValid, fnIn.at)]
    /\ UNCHANGED fnIn

ApplyExtractPriceHistory ==
    /\ fnIn.fn = "extractPriceHistory" /\ fnOut = NoOutput
    /\ fnOut' = extractPriceHistory(fnIn.priceData, fnIn.currentQuote, fnIn.today)
    /\ UNCHANGED fnIn

\* the array carries no high52Week / low52Week here: they are computed
ApplyCalculateTechnicals ==
    /\ fnIn.fn = "calculateTechnicals" /\ fnOut = NoOutput
    /\ fnOut' = [value |-> calculateTechnicals(fnIn.priceHistory, NULL, NULL, 0)]
    /\ UNCHANGED fnIn

ApplyCalculateRSI ==
    /\ fnIn.fn = "calculateRSI" /\ fnOut = NoOutput
    /\ fnOut' = [value |-> calculateRSI(fnIn.prices, RSI_PERIOD)]
    /\ UNCHANGED fnIn

ApplyExtractEssentialBalanceSheet ==
    /\ fnIn.fn = "extractEssentialBalanceSheet" /\ fnOut = NoOutput
    /\ fnOut' = [value |-> extractEssentialBalanceSheet(fnIn.balanceSheet)]
    /\ UNCHANGED fnIn

\* memoryCache.set(key, value, ttl) at setAt, then memoryCache.get(key) at
\* getAt; the store holds an older entry of another key that nobody reads
ApplyMemoryCache ==
    /\ fnIn.fn = "memoryCache" /\ fnOut = NoOutput
    /\ LET other == memoryCacheSet(<<>>, "other", [n |-> 0], DATA_TTL, fnIn.setAt - 10)
           stored == memoryCacheSet(other, fnIn.key, [n |-> 1], fnIn.ttl, fnIn.setAt)
       IN fnOut' = [value |-> memoryCacheGet(stored, fnIn.key, fnIn.getAt),
                    before |-> stored,
                    after |-> memoryCacheAfterGet(stored, fnIn.key, fnIn.getAt)]
    /\ UNCHANGED fnIn

ApplyFormattedPrediction ==
    /\ fnIn.fn = "formattedPrediction" /\ fnOut = NoOutput
    /\ fnOut' = [value |-> formattedPrediction(fnIn.prediction, fnIn.currentPrice, 0)]
    /\ UNCHANGED fnIn

\* the data cache is empty: the four requests are sent
ApplyFetchOptimizedData ==
    /\ fnIn.fn = "fetchOptimizedData" /\ fnOut = NoOutput
    /\ fnOut' = [value |-> BuildSnapshot(fnIn.bodies, MergeToday, 0)]
    /\ UNCHANGED fnIn

\* ------------------------------------------------------------------------
\* The earnings-calendar handler (earnings.js)

BATCH_SIZE == 5
MAX_CONCURRENT_REQUESTS == 3
ENRICH_LIMIT == 100

Min(a, b) == IF a < b THEN a ELSE b

\* earningsData reduced to the symbol of each report; symbols are numbered
CalendarOf(n, u) == [k \in 1..n |-> ((k - 1) % u) + 1]
CalendarLengths == {0, 1, 16, 17, 100, 101, 120}
CalendarSymbols == {1, 11, 16}
Calendars == {CalendarOf(n, u) : n \in CalendarLengths, u \in CalendarSymbols}

\* [...new Set(earningsData.map(item => item.symbol))]: each symbol once, in
\* the order of its first report
UniqueSymbols(reports) ==
    LET found == {reports[k] : k \in DOMAIN reports}
        first(s) == CHOOSE k \in DOMAIN reports :
                        reports[k] = s /\ \A j \in 1..(k - 1) : reports[j] # s
    IN [k \in 1..Cardinality(found) |->
            CHOOSE s \in found :
                Cardinality({t \in found : first(t) < first(s)}) = k - 1]

\* symbols.slice(i, i + BATCH_SIZE) for i = 0, BATCH_SIZE, ...
BatchesOf(symbols) ==
    [b \in 1..((Len(symbols) + BATCH_SIZE - 1) \div BATCH_SIZE) |->
        SubSeq(symbols, (b - 1) * BATCH_SIZE + 1, Min(b * BATCH_SIZE, Len(symbols)))]

\* a slice that takes every remaining batch
GroupOfUnlimited(batches, i) == (i + 1)..Len(batches)

\* batches.slice(i, i + MAX_CONCURRENT_REQUESTS), as indices into batches
GroupOf(batches, i) == (i + 1)..Min(i + MAX_CONCURRENT_REQUESTS, Len(batches))

CalIdle ==
    [pc |-> "idle", reports |-> <<>>, batches |-> <<>>, i |-> 0,
     inflight |-> {}, timer |-> FALSE, profileData |-> {}, quoteData |-> {},
     sent |-> <<>>, settled |-> {}, resp |-> NoResp]

CalRest == cal = CalIdle

CalRespond(q, statusCode, body) ==
    [q EXCEPT !.pc = "done", !.resp = [statusCode |-> statusCode, body |-> body]]

\* Promise.all(currentBatch.map(processBatch)): every batch of the group
\* sends its request before the first await returns
CalStartGroup(q, phase, i) ==
    LET group == GroupOf(q.batches, i)
    IN [q EXCEPT !.pc = phase, !.i = i, !.timer = FALSE, !.inflight = group,
                 !.sent = @ \o [k \in 1..Cardinality(group) |->
                                   [phase |-> phase, batch |-> i + k,
                                    symbols |-> q.batches[i + k]]]]

\* the return of enhanceEarningsData and the handler's 200
CalEnhanced(q) ==
    CalRespond(q, 200, [reports |-> Len(q.reports), enriched |-> TRUE,
                        profiles |-> q.profileData, quotes |-> q.quoteData])

\* processBatchesWithLimits on entry: the first group, or nothing to do
CalStartPhase(q, phase) ==
    IF Len(q.batches) > 0 THEN CalStartGroup(q, phase, 0)
    ELSE IF phase = "profile" THEN [q EXCEPT !.pc = "quote"]
    ELSE CalEnhanced(q)

CalBegin(httpMethod, keyConfigured) ==
    /\ cal.pc = "idle"
    /\ cal' = IF httpMethod = "OPTIONS" THEN CalRespond(cal, 200, "")
              ELSE IF ~keyConfigured
              THEN CalRespond(cal, 500, [error |-> "Failed to fetch earnings data"])
              ELSE [cal EXCEPT !.pc = "calendar"]

\* the reply to the earning_calendar request: an error, a body that is no
\* array, or the reports
CalCalendarReply(reply) ==
    /\ cal.pc = "calendar"
    /\ cal' =
        IF reply.kind # "array"
        THEN CalRespond(cal, 500, [error |-> "Failed to fetch earnings data"])
        ELSE IF Len(reply.reports) > ENRICH_LIMIT
        THEN CalRespond([cal EXCEPT !.reports = reply.reports], 200,
                        [reports |-> Len(reply.reports), enriched |-> FALSE,
                         profiles |-> {}, quotes |-> {}])
        ELSE LET q == [cal EXCEPT !.reports = reply.reports,
                                  !.batches = BatchesOf(UniqueSymbols(reply.reports))]
                 p == CalStartPhase(q, "profile")
             IN IF p.pc = "quote" THEN CalStartPhase(p, "quote") ELSE p

\* one request of the group in flight settles: its data is stored, or its
\* error is caught and logged; the last one of a group arms the delay or
\* ends the phase
CalSettle(b, outcome) ==
    /\ cal.pc \in {"profile", "quote"}
    /\ b \in cal.inflight
    /\ LET stored == IF outcome # "ok" THEN {}
                     ELSE {cal.batches[b][k] : k \in DOMAIN cal.batches[b]}
           q == [cal EXCEPT !.inflight = @ \ {b},
                            !.settled = @ \cup {<<cal.pc, b>>},
                            !.profileData = IF cal.pc = "profile" THEN @ \cup stored ELSE @,
                            !.quoteData = IF cal.pc = "quote" THEN @ \cup stored ELSE @]
       IN cal' = IF q.inflight # {} THEN q
                 ELSE IF q.i + MAX_CONCURRENT_REQUESTS < Len(q.batches)
                 THEN [q EXCEPT !.timer = TRUE]
                 ELSE IF q.pc = "profile" THEN CalStartPhase(q, "quote")
                 ELSE CalEnhanced(q)

\* the 300 ms delay between two groups has passed: the loop goes on
CalTimer ==
    /\ cal.pc \in {"profile", "quote"}
    /\ cal.timer
    /\ cal' = CalStartGroup(cal, cal.pc, cal.i + MAX_CONCURRENT_REQUESTS)

\* ------------------------------------------------------------------------
\* Specifications.  Each one moves its own component and leaves the others
\* at rest.

FbIdle ==
    /\ fbData = [technicalAnalysis |-> Absent, priceHistory |-> <<>>]
    /\ fbResult = NoResult

HandlersIdle ==
    /\ hd = HdIdle /\ hdCount = 0 /\ claudeCache = <<>>
    /\ hdEnv = [FMP_API_KEY |-> TRUE, OPENAI_API_KEY |-> TRUE,
                ANTHROPIC_API_KEY |-> TRUE, BENZINGA_API_KEY |-> TRUE]

EaRest == ea = EaIdle

RatingIdle ==
    /\ now = 0 /\ ticks = 0
    /\ env = [FMP_API_KEY |-> TRUE, OPENAI_API_KEY |-> TRUE]
    /\ memoryCache = <<>> /\ fileCache = <<>> /\ heap = <<>> /\ req = <<>>

\* the fallback heuristic alone, over its inputs
FbInit ==
    /\ fbData \in [technicalAnalysis : FbTechnicals, priceHistory : FbHistories]
    /\ fbResult = NoResult
    /\ RatingIdle
    /\ EaRest
    /\ CalRest
    /\ HandlersIdle
    /\ FnIdle

FbNext == FbApply /\ UNCHANGED <<ratingVars, ea, cal, hdVars, fnVars>>

SpecFallback == FbInit /\ [][FbNext]_vars

\* the rating handler, file-cache variant
Init ==
    /\ FbIdle
    /\ EaRest
    /\ CalRest
    /\ HandlersIdle
    /\ FnIdle
    /\ now = 0
    /\ ticks = 0
    /\ env \in [FMP_API_KEY : BOOLEAN, OPENAI_API_KEY : BOOLEAN]
    /\ memoryCache = <<>>
    /\ fileCache \in [UpperSymbols -> {[kind |-> "missing"], [kind |-> "corrupt"],
                                       PriorFile}]
    /\ heap = <<>>
    /\ req = [r \in Reqs |-> IdleReq]

Next ==
    \/ \E r \in Reqs, m \in {"GET", "OPTIONS"}, s \in QuerySymbols,
          e \in BOOLEAN, w \in WriteOutcomes :
            Begin(r, m, s, e, w) /\ UNCHANGED <<fbVars, ea, cal, hdVars, fnVars>>
    \/ \E r \in Reqs, w \in WriteOutcomes :
          \E b \in UpstreamBodies(env.FMP_API_KEY, now \div 1440) :
            FetchDone(r, b, w) /\ UNCHANGED <<fbVars, ea, cal, hdVars, fnVars>>
    \/ \E r \in Reqs, w \in WriteOutcomes :
          \E o \in LlmOutcomes(env.OPENAI_API_KEY) :
            LlmDone(r, o, w) /\ UNCHANGED <<fbVars, ea, cal, hdVars, fnVars>>
    \/ \E d \in TickMinutes : Tick(d) /\ UNCHANGED <<fbVars, ea, cal, hdVars, fnVars>>

Spec == Init /\ [][Next]_vars

\* The rating handler under the assumption that what it waits for settles.
\* The process takes its invocations one after the other, within one reading
\* of the clock.
InTurn(r) == IF r = 1 THEN TRUE ELSE req[r - 1].pc = "done"

LiveBegin ==
    \E r \in Reqs, m \in {"GET", "OPTIONS"}, s \in QuerySymbols,
       e \in BOOLEAN, w \in WriteOutcomes :
        InTurn(r) /\ Begin(r, m, s, e, w) /\ UNCHANGED <<fbVars, ea, cal, hdVars, fnVars>>

LiveFetchDone(r) ==
    \E w \in WriteOutcomes :
        \E b \in UpstreamBodies(env.FMP_API_KEY, now \div 1440) :
            FetchDone(r, b, w) /\ UNCHANGED <<fbVars, ea, cal, hdVars, fnVars>>

LiveLlmDone(r) ==
    \E w \in WriteOutcomes :
        \E o \in LlmOutcomes(env.OPENAI_API_KEY) :
            LlmDone(r, o, w) /\ UNCHANGED <<fbVars, ea, cal, hdVars, fnVars>>

LiveNext ==
    \/ LiveBegin
    \/ \E r \in Reqs : LiveFetchDone(r)
    \/ \E r \in Reqs : LiveLlmDone(r)

\* every upstream request (market data, model) of every invocation settles
\* in the end, with success or failure; the file operations are synchronous
\* and part of the steps
UpstreamSettles ==
    \A r \in Reqs : WF_vars(LiveFetchDone(r)) /\ WF_vars(LiveLlmDone(r))

SpecLive == Init /\ [][LiveNext]_vars /\ UpstreamSettles

\* the earnings handlers
EaInit ==
    /\ ea = EaIdle
    /\ CalRest
    /\ FbIdle
    /\ RatingIdle
    /\ HandlersIdle
    /\ FnIdle

EaNext ==
    \/ \E v \in EaVariants, k \in BOOLEAN, e \in EaEvents, p \in EaPeriods :
          EaBegin(v, k, e, p) /\ UNCHANGED <<fbVars, ratingVars, cal, hdVars, fnVars>>
    \/ \E r \in EaReplies("A") : EaChainReply("A", r) /\ UNCHANGED <<fbVars, ratingVars, cal, hdVars, fnVars>>
    \/ \E r \in EaReplies("B") : EaChainReply("B", r) /\ UNCHANGED <<fbVars, ratingVars, cal, hdVars, fnVars>>
    \/ \E r \in EaReplies("C") : EaChainReply("C", r) /\ UNCHANGED <<fbVars, ratingVars, cal, hdVars, fnVars>>
    \/ \E r \in EaReplies("upcoming") :
          EaUpcomingReply(r) /\ UNCHANGED <<fbVars, ratingVars, cal, hdVars, fnVars>>
    \/ \E r \in EaReplies("estimates") :
          EaEstimatesReply(r) /\ UNCHANGED <<fbVars, ratingVars, cal, hdVars, fnVars>>

SpecEarnings == EaInit /\ [][EaNext]_vars

\* the other handlers, one invocation after the other
HdInit ==
    /\ hd = HdIdle
    /\ hdCount = 0
    /\ claudeCache = <<>>
    /\ hdEnv \in [FMP_API_KEY : BOOLEAN, OPENAI_API_KEY : BOOLEAN,
                  ANTHROPIC_API_KEY : BOOLEAN, BENZINGA_API_KEY : BOOLEAN]
    /\ FbIdle
    /\ RatingIdle
    /\ EaRest
    /\ CalRest
    /\ FnIdle

HdNext ==
    \/ \E h \in Handlers : \E e \in HdEvents(h) :
          HdBegin(h, e) /\ UNCHANGED <<fbVars, ratingVars, ea, cal, fnVars>>
    \/ \E o \in HdOutcomes : HdUpstreamDone(o) /\ UNCHANGED <<fbVars, ratingVars, ea, cal, fnVars>>
    \/ \E o \in HdLlmOutcomes : HdLlmDone(o) /\ UNCHANGED <<fbVars, ratingVars, ea, cal, fnVars>>

SpecHandlers == HdInit /\ [][HdNext]_vars

\* the earnings-calendar handler
CalReplies ==
    {[kind |-> "error"], [kind |-> "object"]}
        \cup {[kind |-> "array", reports |-> c] : c \in Calendars}

CalInit ==
    /\ cal = CalIdle
    /\ FbIdle
    /\ RatingIdle
    /\ EaRest
    /\ HandlersIdle
    /\ FnIdle

CalNext ==
    \/ \E m \in {"GET", "OPTIONS"}, k \in BOOLEAN :
          CalBegin(m, k) /\ UNCHANGED <<fbVars, ratingVars, ea, hdVars, fnVars>>
    \/ \E r \in CalReplies :
          CalCalendarReply(r) /\ UNCHANGED <<fbVars, ratingVars, ea, hdVars, fnVars>>
    \/ \E b \in cal.inflight, o \in {"ok", "error", "malformed"} :
          CalSettle(b, o) /\ UNCHANGED <<fbVars, ratingVars, ea, hdVars, fnVars>>
    \/ CalTimer /\ UNCHANGED <<fbVars, ratingVars, ea, hdVars, fnVars>>

SpecCalendar == CalInit /\ [][CalNext]_vars

\* the pure functions, each on its inputs
FnInit ==
    /\ fnIn \in FreshInputs \cup MergeInputs \cup TechInputs \cup RsiInputs
                \cup FetchInputs \cup PredictionInputs \cup BalanceInputs
                \cup CacheInputs
    /\ fnOut = NoOutput
    /\ FbIdle
    /\ RatingIdle
    /\ EaRest
    /\ CalRest
    /\ HandlersIdle

FnNext ==
    \/ ApplyIsDataFresh /\ UNCHANGED <<fbVars, ratingVars, ea, cal, hdVars>>
    \/ ApplyExtractPriceHistory /\ UNCHANGED <<fbVars, ratingVars, ea, cal, hdVars>>
    \/ ApplyCalculateTechnicals /\ UNCHANGED <<fbVars, ratingVars, ea, cal, hdVars>>
    \/ ApplyCalculateRSI /\ UNCHANGED <<fbVars, ratingVars, ea, cal, hdVars>>
    \/ ApplyFetchOptimizedData /\ UNCHANGED <<fbVars, ratingVars, ea, cal, hdVars>>
    \/ ApplyFormattedPrediction /\ UNCHANGED <<fbVars, ratingVars, ea, cal, hdVars>>
    \/ ApplyExtractEssentialBalanceSheet /\ UNCHANGED <<fbVars, ratingVars, ea, cal, hdVars>>
    \/ ApplyMemoryCache /\ UNCHANGED <<fbVars, ratingVars, ea, cal, hdVars>>

SpecFunctions == FnInit /\ [][FnNext]_vars

\* ------------------------------------------------------------------------
\* Properties

Has(log, e) == \E i \in DOMAIN log : log[i] = e

NumLt(a, b) == IsNum(a) /\ a < b
NumGt(a, b) == IsNum(a) /\ a > b

\* the rule of section 4.4.1 read on numbers: an absent indicator satisfies
\* no comparison, targets are rounded to cents
HeuristicOf(ta, currentPrice) ==
    IF ta = Absent
    THEN [recommendation |-> "HOLD", targetPrice |-> currentPrice, confidence |-> 30]
    ELSE IF NumLt(ta.rsi, 3000) /\ NumLt(ta.priceChange1m, 0 - 500)
            /\ NumLt(ta.priceChange3m, 0)
    THEN [recommendation |-> "BUY", targetPrice |-> RoundDiv(currentPrice * 115, 100),
          confidence |-> 60]
    ELSE IF NumGt(ta.rsi, 7000) /\ NumGt(ta.priceChange1m, 1000)
    THEN [recommendation |-> "SELL", targetPrice |-> RoundDiv(currentPrice * 90, 100),
          confidence |-> 60]
    ELSE [recommendation |-> "HOLD",
          targetPrice |-> IF IsNum(ta.sma50) THEN ta.sma50
                          ELSE RoundDiv(currentPrice * 105, 100),
          confidence |-> 50]

Summary(rec) ==
    [recommendation |-> rec.recommendation, targetPrice |-> rec.targetPrice,
     confidence |-> rec.confidence]

Validated(q) == q.pc # "idle" /\ q.symbol # NoSymbol

MemoryUsable(q) ==
    /\ q.memorySeen # NoFacts
    /\ ~(q.memorySeen.at > q.memorySeen.expiry)

FileUsable(q) ==
    /\ q.fileSeen # NoFacts
    /\ q.fileSeen.file.kind = "json"
    /\ ~q.fileSeen.ioError
    /\ q.fileSeen.at - q.fileSeen.file.lastFetched < 24 * 60

\* C1: a request with a symbol consults the memory tier first and reads the
\* file tier only after a memory miss; when the memory entry is within its
\* TTL, or the file entry is younger than 24 hours, the answer is 200 with
\* that entry and neither an upstream request nor a model request is sent.
C1_CacheHitServed ==
    \A r \in Reqs :
        LET q == req[r]
        IN Validated(q) =>
            /\ q.log # <<>> /\ q.log[1] = "memory"
            /\ Has(q.log, "file") => ~MemoryUsable(q) /\ q.log[2] = "file"
            /\ MemoryUsable(q) =>
                  /\ q.pc = "done" /\ q.resp.statusCode = 200
                  /\ q.resp.body = q.memorySeen.payload
                  /\ q.log = <<"memory">>
            /\ ~MemoryUsable(q) /\ FileUsable(q) =>
                  /\ q.pc = "done" /\ q.resp.statusCode = 200
                  /\ q.resp.body = q.fileSeen.file.data
                  /\ q.log = <<"memory", "file">>

C1_Witness ==
    \E r \in Reqs :
        /\ req[r].pc = "done" /\ Validated(req[r])
        /\ req[r].memorySeen # NoFacts
        /\ ~MemoryUsable(req[r]) /\ FileUsable(req[r])
        /\ req[r].resp.statusCode = 200

MissPath200(q) ==
    /\ q.pc = "done" /\ ~q.overlapped
    /\ Has(q.log, "upstream") /\ q.resp.statusCode = 200

LlmFailed(q) == q.pc = "done" /\ q.llm # NoFacts /\ q.llm.kind # "answer"

MostRecentClose(priceHistory) ==
    IF priceHistory = <<>> THEN 0 ELSE priceHistory[1].close

\* C3 as stated: when the model call fails, the answer is 200 and its
\* recommendation is the section 4.4.1 heuristic applied to the indicators
\* and the current price of the request.
C3_FallbackIsHeuristic ==
    \A r \in Reqs :
        LlmFailed(req[r]) =>
            /\ req[r].resp.statusCode = 200
            /\ Summary(req[r].resp.body.recommendation) =
                  HeuristicOf(req[r].resp.body.fetchedData.technicalAnalysis,
                      MostRecentClose(req[r].resp.body.fetchedData.priceHistory))

\* C4 as stated: generateFallbackRecommendation gives BUY / SELL / HOLD with
\* the targets and confidences of section 4.4.1 exactly under its thresholds.
C4_HeuristicExact ==
    fbResult # NoResult =>
        Summary(fbResult) =
            HeuristicOf(fbData.technicalAnalysis, LastClose(fbData.priceHistory))

FetchSucceeded(q) ==
    /\ q.bodies # NoFacts
    /\ \A e \in {"income", "balance", "prices", "quote"} : q.bodies[e].kind # "throw"

FileTierFailed(q) ==
    \/ q.fileSeen # NoFacts /\ (q.fileSeen.ioError \/ q.fileSeen.file.kind # "json")
    \/ q.writeOutcome = "failed"

\* C8: a failure of the file tier (missing, unreadable or unparseable file,
\* failing write) never fails the request: once the upstream fetch has
\* succeeded the answer is 200 with a recommendation, and after a failed
\* write the memory tier still holds the payload.
C8_FileFailureNotFatal ==
    \A r \in Reqs :
        LET q == req[r]
        IN q.pc = "done" /\ FileTierFailed(q) =>
            /\ FetchSucceeded(q) =>
                  /\ q.resp.statusCode = 200
                  /\ q.resp.body.recommendation.recommendation \in {"BUY", "SELL", "HOLD", ""}
            /\ q.resp.statusCode = 500 => q.bodies = RejectedBodies
            /\ q.writeOutcome = "failed" =>
                  /\ q.tiers.memory # NoFacts
                  /\ q.tiers.memory.payload = q.resp.body

C8_Witness ==
    \E r \in Reqs :
        /\ req[r].pc = "done"
        /\ req[r].fileSeen # NoFacts /\ req[r].fileSeen.file.kind = "corrupt"
        /\ req[r].writeOutcome = "failed"
        /\ FetchSucceeded(req[r])
        /\ req[r].resp.statusCode = 200

\* C9 as stated: a request with a symbol made while the market-data key or
\* the model key is not configured is answered 500 with an error, and no
\* upstream request is sent.
C9_MissingKeyIs500 ==
    \A r \in Reqs :
        Validated(req[r]) /\ ~(env.FMP_API_KEY /\ env.OPENAI_API_KEY) =>
            /\ ~Has(req[r].log, "upstream") /\ ~Has(req[r].log, "llm")
            /\ req[r].pc = "done"
            /\ req[r].resp.statusCode = 500

ChainNames == <<"A", "B", "C">>

ChainCalls(q) == SelectSeq(q.calls, LAMBDA c : c \in {"A", "B", "C"})

\* the replies of the chain endpoints received so far
ChainReplies(q) == SubSeq(q.replies, 1, Min2(Len(q.replies), Len(ChainCalls(q))))

Succeeded(reply) ==
    reply.kind = "json" /\ reply.body.type = "array" /\ reply.body.items # <<>>

\* C5: the chain endpoints are called in the order A, B, C; the first one
\* that returns a non-empty array ends the chain, the result is its mapped
\* records, and the answer is 200.
C5_FirstSuccessWins ==
    LET cc == ChainCalls(ea)
        rr == ChainReplies(ea)
    IN /\ \A i \in 1..Len(cc) : cc[i] = ChainNames[i]
       /\ \A i \in 1..Len(ea.calls) : ea.calls[i] \in {"A", "B", "C"} => i <= Len(cc)
       /\ \A i \in 1..Len(rr) :
             Succeeded(rr[i]) =>
                /\ Len(cc) = i
                /\ ea.data = JsonArray(MapEndpoint(ea.variant, cc[i], ea.symbol,
                                                   rr[i].body.items))
                /\ ea.pc = "done" => ea.resp.statusCode = 200

C5_Witness ==
    /\ ea.pc = "done" /\ Len(ea.replies) >= 2
    /\ ea.replies[1] = Json(JsonArray(<<>>))
    /\ ea.replies[2] = Json(JsonArray(<<SurpriseItem(900)>>))
    /\ ~Has(ea.calls, "C")
    /\ ea.data = JsonArray(<<MapSurprise(ea.variant, ea.symbol, SurpriseItem(900))>>)
    /\ ea.resp.statusCode = 200

\* C6 as stated: a non-2xx reply of a chain endpoint does not end the
\* request; the next endpoint is tried, and an error status is answered
\* only after all three have been tried.
C6_Non2xxTriesNext ==
    LET cc == ChainCalls(ea)
        rr == ChainReplies(ea)
    IN /\ \A i \in 1..Len(rr) :
             rr[i].kind = "status" /\ i < 3 => Len(cc) > i
       /\ (ea.pc = "done" /\ cc # <<>> /\ ea.resp.statusCode # 200
           /\ \E i \in 1..Len(rr) : rr[i].kind = "status")
             => Len(cc) = 3

\* C7 as stated: when the replies of the chain hold no non-empty array and
\* no transport failure, every endpoint has been tried and the answer is
\* 404 with error, symbol and noData.
C7_NoDataIs404 ==
    LET cc == ChainCalls(ea)
        rr == ChainReplies(ea)
    IN (ea.pc = "done" /\ cc # <<>>
        /\ \A i \in 1..Len(rr) : ~Succeeded(rr[i]) /\ rr[i].kind # "throw")
          => /\ cc = ChainNames
             /\ ea.resp.statusCode = 404
             /\ ea.resp.body.noData
             /\ ea.resp.body.symbol = ea.symbol

\* the invocation came without its required parameter, or with a body that
\* does not parse
LacksParameter(q) ==
    IF q.handler \in BodyHandlers THEN q.event.body # "param"
    ELSE q.handler \notin {"benzinga-news", "firebase", "fetch-api-key"}
         /\ q.event.query # "param"

\* C10: a request (no preflight) that lacks its required parameter, or whose
\* body does not parse, is answered 400 with an error record, whichever
\* handler receives it.
C10_MissingParameterIs400 ==
    (hd.pc # "idle" /\ hd.event.httpMethod # "OPTIONS" /\ LacksParameter(hd))
        => (hd.pc = "done" /\ hd.resp.statusCode = 400 /\ hd.resp.error)

\* the handlers that pass a request on to one upstream service
ProxyHandlers ==
    {"fmp-proxy", "bull-bear", "fmp-api", "fmp-api-keyed", "anthropic-proxy",
     "benzinga-news", "benzinga-earnings"}

UpstreamFailed(q) ==
    q.pc = "done" /\ q.outcome # NoFacts /\ q.outcome.kind \in {"status", "transport"}

\* C11 as stated: when the upstream call of a proxy handler fails, the status
\* of the response is the upstream's status if it sent one and 500 otherwise,
\* and the body holds both error and details.
C11_FailureMirrorsUpstream ==
    (hd.handler \in ProxyHandlers /\ UpstreamFailed(hd)) =>
        /\ hd.resp.statusCode =
              IF hd.outcome.kind = "status" THEN hd.outcome.status ELSE 500
        /\ {"error", "details"} \subseteq hd.resp.body

\* C12 as stated: a preflight request is answered 200 or 204 with CORS
\* headers and an empty body, before any check or upstream call, by every
\* handler.
C12_PreflightAnswered ==
    (hd.pc # "idle" /\ hd.event.httpMethod = "OPTIONS") =>
        /\ hd.pc = "done"
        /\ hd.calls = <<>>
        /\ hd.resp.statusCode \in {200, 204}
        /\ hd.resp.cors
        /\ hd.resp.body = {}

\* C13 as stated, for the earnings handlers, which have no cache tier: every
\* response is computed in the request and carries Cache-Control: no-cache.
C13_FreshIsNoCache ==
    ea.pc = "done" => ea.resp.cacheControl = "no-cache"

Applied(fn) == fnIn.fn = fn /\ fnOut # NoOutput

\* C14: isDataFresh(timestamp, hoursValid) is true exactly when the age
\* now - timestamp is strictly below hoursValid hours: one hour old is fresh
\* for 24 hours, 25 hours old is not, exactly 24 hours old is not.
C14_FreshExactlyWhenYounger ==
    Applied("isDataFresh") =>
        LET age == fnIn.at - fnIn.timestamp
        IN /\ fnOut.value <=> (age < fnIn.hoursValid * 60)
           /\ (fnIn.hoursValid = 24 /\ age = 60) => fnOut.value
           /\ (fnIn.hoursValid = 24 /\ age \in {1440, 1500}) => ~fnOut.value

C14_Witness ==
    /\ Applied("isDataFresh")
    /\ fnIn.hoursValid = 24
    /\ fnIn.at - fnIn.timestamp = 1440
    /\ ~fnOut.value

\* the history handed to extractPriceHistory, its newest bar and the bars
\* older than that one
MergeHistory == fnIn.priceData.historical
BarsOf(s) == {s[i] : i \in DOMAIN s}
\* of several bars with the newest date, the one listed first
NewestBar(s) ==
    s[CHOOSE i \in DOMAIN s : /\ \A j \in DOMAIN s : s[j].date <= s[i].date
                               /\ \A k \in 1..(i - 1) : s[k].date < s[i].date]
NewestFirst(s) == \A i \in 1..(Len(s) - 1) : s[i].date > s[i + 1].date
MergeCase ==
    /\ Applied("extractPriceHistory")
    /\ fnIn.priceData.kind = "history"
    /\ fnIn.currentQuote # Absent
    /\ Truthy(fnIn.currentQuote.price)

NonDecreasing(p) == \A i \in 1..(Len(p) - 1) : p[i] <= p[i + 1]
StrictlyDecreasing(p) == \A i \in 1..(Len(p) - 1) : p[i] > p[i + 1]

\* C16: calculateRSI(P, 14) on a chronological series of at least 15 closes
\* is exactly 100 when the series never falls (a constant series included),
\* 0 when it strictly falls, and never NaN.
C16_RsiDefinedWithoutLosses ==
    (Applied("calculateRSI") /\ Len(fnIn.prices) >= RSI_PERIOD + 1) =>
        /\ fnOut.value # NAN
        /\ NonDecreasing(fnIn.prices) => fnOut.value = 10000
        /\ StrictlyDecreasing(fnIn.prices) => fnOut.value = 0

\* the closes handed to calculateTechnicals, newest first
TechCloses == [i \in 1..Len(fnIn.priceHistory) |-> fnIn.priceHistory[i].close]
TechCase == Applied("calculateTechnicals") /\ fnOut.value # Absent
MeanOfNewest(closes, period) == SumSeq(SubSeq(closes, 1, period)) \div period

\* C17: sma20, sma50 and sma200 are each the mean of the `period` most
\* recent closes, absent when the series has fewer than `period` bars, and
\* equal to the constant over a constant series.
C17_SmaIsMeanOfNewest ==
    TechCase =>
        LET closes == TechCloses
            sma == [p \in {20, 50, 200} |->
                       CASE p = 20 -> fnOut.value.sma20
                         [] p = 50 -> fnOut.value.sma50
                         [] p = 200 -> fnOut.value.sma200]
        IN \A p \in {20, 50, 200} :
              IF Len(closes) < p THEN sma[p] = NULL
              ELSE /\ sma[p] = MeanOfNewest(closes, p)
                   /\ fnIn.shape = "flat" => sma[p] = 10000

ChangeOverBars(closes, n) == Percent(closes[1] - closes[1 + n], closes[1 + n])

\* C18: the 1-day, 1-month and 3-month percent changes are each
\* (newest close - close N bars before it) / that close * 100 for N = 1, 20
\* and 60: 0 when the two closes are equal, 10 when the older is 100 and the
\* newest 110.
C18_ChangeIsNewestOverOlder ==
    TechCase =>
        LET closes == TechCloses
            n == Len(closes)
        IN /\ n >= 2 => fnOut.value.priceChange1d = ChangeOverBars(closes, 1)
           /\ n >= 21 => fnOut.value.priceChange1m = ChangeOverBars(closes, 20)
           /\ n >= 61 => fnOut.value.priceChange3m = ChangeOverBars(closes, 60)
           /\ (n >= 2 /\ closes[1] = 11000 /\ closes[2] = 10000) =>
                  fnOut.value.priceChange1d = 1000
           /\ (n >= 2 /\ closes[1] = closes[2]) => fnOut.value.priceChange1d = 0

\* C19: an indicator whose window is longer than the series is absent: RSI
\* below 15 closes, SMA(p) below p closes, the change over d bars below
\* d + 1 closes, the volume change below 20 bars.
C19_ShortSeriesGivesAbsent ==
    TechCase =>
        LET n == Len(fnIn.priceHistory)
            t == fnOut.value
        IN /\ n < 15 => t.rsi = NULL
           /\ n < 20 => t.sma20 = NULL
           /\ n < 50 => t.sma50 = NULL
           /\ n < 200 => t.sma200 = NULL
           /\ n < 2 => t.priceChange1d = NULL
           /\ n < 21 => t.priceChange1m = NULL
           /\ n < 61 => t.priceChange3m = NULL
           /\ n < 20 => t.volumeChange = NULL

Actions == {"BUY", "SELL", "HOLD"}

\* C20: every recommendation in a 200 response of a rating handler, whether
\* derived from the model's answer, from the fallback or served from the
\* cache, has an action in {BUY, SELL, HOLD} and an integer confidence
\* between 0 and 100.
C20_RecommendationWellFormed ==
    (/\ hd.pc = "done" /\ hd.handler = "claude-rating"
     /\ hd.resp.statusCode = 200 /\ hd.recommendation # NoFacts) =>
        /\ hd.recommendation.recommendation \in Actions
        /\ hd.recommendation.confidence \in 0..100

\* two invocations that overlapped, both finished, neither served by the
\* memory tier or the file tier, neither with a rejected upstream request
BothMissed(q) ==
    /\ q.pc = "done" /\ q.overlapped /\ Validated(q)
    /\ ~MemoryUsable(q) /\ ~FileUsable(q)
Race == \A r \in Reqs : BothMissed(req[r]) /\ req[r].bodies # RejectedBodies
TiersNow == TierSnapshot(memoryCache, fileCache, heap, "AAPL", now)

\* the tiers after the race: the memory tier holds the whole payload of the
\* invocation that finished last, the file tier the whole payload of the
\* last invocation whose write succeeded
LastWriterWins ==
    /\ TiersNow.memory # NoFacts
    /\ \E r \in Reqs :
          /\ req[r].tiers = TiersNow
          /\ TiersNow.memory.payload = req[r].resp.body
          /\ req[r].writeOutcome = "ok" => TiersNow.file.kind = "json"
    /\ (\E r \in Reqs : req[r].writeOutcome = "ok") =>
          \E r \in Reqs : /\ req[r].writeOutcome = "ok"
                          /\ TiersNow.file.kind = "json"
                          /\ TiersNow.file.data = req[r].resp.body

FromMemory(q) == q.pc = "done" /\ Validated(q) /\ MemoryUsable(q)
FromFile(q) == q.pc = "done" /\ Validated(q) /\ ~MemoryUsable(q) /\ FileUsable(q)

\* C22: every response served from a cache tier carries a payload stored
\* less than 24 hours before the response: a file entry by its lastFetched,
\* a memory entry by the lastFetched of the file entry it was copied from or
\* written with.
C22_CachedPayloadYoungerThanDay ==
    \A r \in Reqs :
        LET q == req[r]
        IN /\ FromFile(q) =>
                  q.fileSeen.at - q.fileSeen.file.lastFetched < FILE_HOURS * 60
           /\ (/\ FromMemory(q)
               /\ q.tiers.file.kind = "json"
               /\ q.tiers.file.data = q.resp.body) =>
                  q.memorySeen.at - q.tiers.file.lastFetched < FILE_HOURS * 60

Count(log, e) == Cardinality({i \in DOMAIN log : log[i] = e})

\* C23: a request sends at most one model request on every path; while it
\* waits no outcome is recorded, and the one outcome, success or failure, is
\* followed at once by the writes and the answer.
C23_LlmAtMostOnce ==
    \A r \in Reqs :
        LET q == req[r]
        IN /\ Count(q.log, "llm") <= 1
           /\ q.pc = "llm" <=> (Has(q.log, "llm") /\ q.llm = NoFacts)
           /\ q.llm # NoFacts =>
                 /\ q.pc = "done"
                 /\ Len(q.log) >= 2
                 /\ SubSeq(q.log, Len(q.log) - 1, Len(q.log)) = <<"llm", "write">>
                 /\ q.resp.statusCode = 200

\* a model request failed and the request ended without a second one
C23_Witness ==
    \E r \in Reqs :
        /\ LlmFailed(req[r])
        /\ Count(req[r].log, "llm") = 1
        /\ req[r].resp.statusCode = 200

\* the four components of the fingerprint of the data a request holds
Components(q) ==
    LET data == heap[q.obj]
        ta == data.technicalAnalysis
    IN [date |-> IF data.fundamentals = Absent THEN NULL ELSE data.fundamentals.date,
        rsi |-> IF ta = Absent THEN "undefined" ELSE Fixed1(ta.rsi),
        priceChange1m |-> IF ta = Absent THEN "undefined" ELSE Fixed1(ta.priceChange1m),
        currentPrice |-> PredictionPrice(data)]

ReachedPrediction(q) == q.aiSeen # NoFacts
LlmSucceeded(q) == q.pc = "done" /\ q.llm # NoFacts /\ q.llm.kind = "answer"

\* an answer stored under the key of the request less than AI_TTL ago
YoungAnswer(q) ==
    /\ "expiry" \in DOMAIN q.aiSeen
    /\ q.aiSeen.at - (q.aiSeen.expiry - AI_TTL) < AI_TTL

\* C24: a request that reaches the recommendation stage sends no model
\* request exactly when an answer of the model, obtained less than an hour
\* earlier in this process for the same symbol and an equal fingerprint
\* (report date, RSI and 1-month change to one decimal, price), is stored;
\* it then returns that answer.  Otherwise it sends the model request.
C24_AnswerReusedByFingerprint ==
    \A r \in Reqs :
        LET q == req[r]
        IN ReachedPrediction(q) =>
              IF YoungAnswer(q)
              THEN /\ ~Has(q.log, "llm")
                   /\ q.pc = "done" /\ q.prediction = q.aiSeen.rec
                   /\ \E r2 \in Reqs \ {r} :
                         /\ LlmSucceeded(req[r2])
                         /\ req[r2].symbol = q.symbol
                         /\ Components(req[r2]) = Components(q)
                         /\ req[r2].prediction = q.prediction
                         /\ q.aiSeen.at - req[r2].tiers.memory.at < AI_TTL
              ELSE /\ Has(q.log, "llm")
                   /\ \A r2 \in Reqs \ {r} :
                         (/\ LlmSucceeded(req[r2])
                          /\ Components(req[r2]) # Components(q)) =>
                             req[r2].aiKey # q.aiKey

\* a request reused the answer another request had obtained
C24_Witness ==
    \E r \in Reqs :
        /\ ReachedPrediction(req[r]) /\ YoungAnswer(req[r])
        /\ req[r].pc = "done" /\ ~Has(req[r].log, "llm")
        /\ req[r].resp.statusCode = 200
        /\ Has(req[r].log, "upstream")

\* the request that follows request r, begun after r had answered
NextAfter(r, r2) ==
    /\ r2 = r + 1 /\ ~req[r].overlapped /\ ~req[r2].overlapped
    /\ req[r2].pc = "done" /\ Validated(req[r2])

\* C25: after a failed model request the fallback recommendation is stored
\* in the two tiers as an answer of the model would be (the memory tier with
\* DEFAULT_TTL, the file tier with lastFetched, unless the write fails) and
\* not under the fingerprint key; the next request for the symbol that finds
\* the memory entry unexpired, or that file entry fresh, is answered with the
\* same recommendation and sends no model request.
C25_FallbackCachedLikeAnswer ==
    \A r \in Reqs :
        LET q == req[r]
        IN (LlmFailed(q) /\ ~q.overlapped) =>
            /\ q.resp.statusCode = 200
            /\ q.tiers.memory # NoFacts
            /\ q.tiers.memory.payload = q.resp.body
            /\ q.tiers.memory.expiry = q.tiers.memory.at + DEFAULT_TTL
            /\ q.writeOutcome = "ok" =>
                  /\ q.tiers.file.kind = "json"
                  /\ q.tiers.file.data = q.resp.body
                  /\ q.tiers.file.lastFetched = q.tiers.memory.at
            /\ (\A r2 \in Reqs : ~LlmSucceeded(req[r2])) =>
                  q.aiKey \notin DOMAIN memoryCache
            /\ \A r2 \in Reqs :
                  (/\ NextAfter(r, r2)
                   /\ \/ MemoryUsable(req[r2])
                      \/ FileUsable(req[r2]) /\ q.writeOutcome = "ok") =>
                      /\ req[r2].resp.statusCode = 200
                      /\ req[r2].resp.body.recommendation = q.resp.body.recommendation
                      /\ ~Has(req[r2].log, "llm")
                      /\ ~Has(req[r2].log, "upstream")

\* more than an hour after a fallback the next request is answered from the
\* file tier with the fallback recommendation
C25_Witness ==
    /\ LlmFailed(req[1]) /\ ~req[1].overlapped
    /\ NextAfter(1, 2)
    /\ FromFile(req[2])
    /\ req[2].fileSeen.at > DEFAULT_TTL
    /\ req[2].resp.body.recommendation = req[1].resp.body.recommendation
    /\ req[2].resp.body.recommendation.reason \in {"insufficient", "neutral"}

\* the sub-record of the snapshot that an endpoint fills
Populated(snapshot, e) ==
    CASE e = "income" -> snapshot.fundamentals # Absent
      [] e = "balance" -> snapshot.balanceSheet # Absent
      [] e = "prices" -> snapshot.priceHistory # <<>>
      [] e = "quote" -> snapshot.currentQuote # Absent

\* C26: when exactly one of the four upstream calls of fetchOptimizedData
\* fails (rejected or unparseable, or a body of the wrong shape), the fetch
\* returns a snapshot, not null, in which the sub-record of that call is
\* absent and the other three are populated.
C26_OneFailureKeepsOthers ==
    (Applied("fetchOptimizedData") /\ fnIn.failed # "none") =>
        /\ fnOut.value # Absent
        /\ \A e \in Endpoints : Populated(fnOut.value, e) <=> e # fnIn.failed

\* C27: the bars extractPriceHistory returns are strictly ordered by date,
\* newest first, no date twice, for every historical list (in any order,
\* with a date listed twice, with a bar dated after the server's UTC day)
\* and every quote.
C27_BarsStrictlyNewestFirst ==
    Applied("extractPriceHistory") => NewestFirst(fnOut.bars)

\* the target price the fallback derives from a current price
TargetFrom(rec, ta, currentPrice) ==
    CASE rec.reason = "insufficient" -> currentPrice
      [] rec.reason = "oversold" -> RoundDiv(currentPrice * BUY_FACTOR, 100)
      [] rec.reason = "overbought" -> RoundDiv(currentPrice * SELL_FACTOR, 100)
      [] rec.reason = "neutral" ->
            IF Truthy(ta.sma50) THEN ta.sma50
            ELSE RoundDiv(currentPrice * HOLD_FACTOR, 100)

\* C28: the fallback derives its target price from the close of the most
\* recent bar of the price series, the value that technicalAnalysis
\* .currentPrice holds in the same request.
C28_FallbackUsesCurrentPrice ==
    \A r \in Reqs :
        (LlmFailed(req[r]) /\ req[r].resp.statusCode = 200) =>
            LET data == req[r].resp.body.fetchedData
                rec == req[r].resp.body.recommendation
                ta == data.technicalAnalysis
                mostRecent == MostRecentClose(data.priceHistory)
            IN /\ ta # Absent => ta.currentPrice = mostRecent
               /\ rec.targetPrice = TargetFrom(rec, ta, mostRecent)

Marked(rec) ==
    \/ "note" \in DOMAIN rec /\ rec.note # ""
    \/ "producedBy" \in DOMAIN rec

\* C29: every recommendation the fallback produced carries a note or a
\* producedBy field that marks it, and no recommendation derived from an
\* answer of the model carries that mark.
C29_FallbackIsMarked ==
    \A r \in Reqs :
        LET q == req[r]
        IN (q.pc = "done" /\ q.llm # NoFacts /\ q.resp.statusCode = 200) =>
              (Marked(q.resp.body.recommendation) <=> LlmFailed(q))

\* C30: of a parsed answer the returned targetPrice, upside and confidence
\* are numbers; targetPrice is the current price and confidence 50 when the
\* model's value is missing or not a number, and a number the model
\* supplied, 0 included, is kept.
C30_NumericFieldsCoerced ==
    Applied("formattedPrediction") =>
        LET p == fnIn.prediction
            out == fnOut.value
        IN /\ IsNum(out.targetPrice) /\ IsNum(out.confidence)
           /\ IsNum(out.upside) /\ ~out.upsideIsString
           /\ out.targetPrice = IF p.targetPrice = NULL THEN fnIn.currentPrice
                                ELSE p.targetPrice
           /\ out.confidence = IF p.confidence = NULL THEN 50 ELSE p.confidence
           /\ p.upside # NULL => out.upside = p.upside

\* C31: in the balance-sheet sub-record debtToAssets is absent whenever
\* totalAssets is zero or missing and currentRatio is absent whenever
\* totalCurrentLiabilities is zero or missing; neither is Infinity, NaN or 0
\* put in its place.
C31_RatioAbsentWithoutDenominator ==
    Applied("extractEssentialBalanceSheet") =>
        LET b == fnIn.balanceSheet
            out == fnOut.value
        IN /\ out.debtToAssets \notin {NAN, INF, NEG_INF}
           /\ out.currentRatio \notin {NAN, INF, NEG_INF}
           /\ b.totalAssets \in {NULL, 0} => out.debtToAssets = NULL
           /\ b.totalCurrentLiabilities \in {NULL, 0} => out.currentRatio = NULL


\* C32: memoryCache.get returns the stored value only while the time elapsed
\* since the set is strictly less than the ttl; at or after that age it
\* returns absent and removes the entry; a read removes no other entry and
\* an unexpired entry stays.
C32_GetStrictlyWithinTtl ==
    Applied("memoryCache") =>
        LET age == fnIn.getAt - fnIn.setAt
        IN IF age < fnIn.ttl
           THEN fnOut.value = [n |-> 1] /\ fnOut.after = fnOut.before
           ELSE /\ fnOut.value = Absent
                /\ DOMAIN fnOut.after = DOMAIN fnOut.before \ {fnIn.key}


\* C33: while the earnings-calendar handler enriches its data, at most
\* MAX_CONCURRENT_REQUESTS requests are in flight and each covers at most
\* BATCH_SIZE symbols; a group of batches starts only after every batch of
\* the previous group has settled; the quote phase starts only after the
\* profile phase has finished; every unique symbol is requested exactly once
\* per phase; no enrichment request is sent for more than 100 reports.
Phases == {"profile", "quote"}
SentIn(phase) == {k \in DOMAIN cal.sent : cal.sent[k].phase = phase}
InFlightRequests ==
    {k \in DOMAIN cal.sent : <<cal.sent[k].phase, cal.sent[k].batch>> \notin cal.settled}
GroupNo(k) == (cal.sent[k].batch - 1) \div MAX_CONCURRENT_REQUESTS
Covers(k, s) == \E j \in DOMAIN cal.sent[k].symbols : cal.sent[k].symbols[j] = s
ReportedSymbols == {cal.reports[k] : k \in DOMAIN cal.reports}
C33_EnrichmentIsBounded ==
    /\ Cardinality(InFlightRequests) <= MAX_CONCURRENT_REQUESTS
    /\ \A k \in DOMAIN cal.sent : Len(cal.sent[k].symbols) <= BATCH_SIZE
    /\ \A k, j \in DOMAIN cal.sent :
          (cal.sent[k].phase = cal.sent[j].phase /\ GroupNo(k) < GroupNo(j))
              => k \notin InFlightRequests
    /\ SentIn("quote") # {} =>
          /\ SentIn("profile") \cap InFlightRequests = {}
          /\ \A s \in ReportedSymbols : \E k \in SentIn("profile") : Covers(k, s)
    /\ \A p \in Phases, s \in ReportedSymbols :
          /\ Cardinality({k \in SentIn(p) : Covers(k, s)}) <= 1
          /\ \A k \in SentIn(p) :
                Cardinality({j \in DOMAIN cal.sent[k].symbols :
                                cal.sent[k].symbols[j] = s}) <= 1
          /\ (cal.pc = "done" /\ cal.resp.statusCode = 200
                /\ Len(cal.reports) <= ENRICH_LIMIT)
                => Cardinality({k \in SentIn(p) : Covers(k, s)}) = 1
    /\ Len(cal.reports) > ENRICH_LIMIT => cal.sent = <<>>

\* a calendar of several groups has been enriched in both phases, some
\* requests having failed
C33_Witness ==
    /\ cal.pc = "done" /\ cal.resp.statusCode = 200
    /\ Len(cal.batches) > MAX_CONCURRENT_REQUESTS
    /\ Len(cal.sent) = 2 * Len(cal.batches)
    /\ cal.profileData # ReportedSymbols
    /\ cal.quoteData # {}

\* three requests are in flight at once
C33_WitnessFull ==
    Cardinality(InFlightRequests) = MAX_CONCURRENT_REQUESTS

\* a calendar of more than 100 reports was answered without enrichment
C33_WitnessSkipped ==
    cal.pc = "done" /\ Len(cal.reports) > ENRICH_LIMIT /\ cal.resp.statusCode = 200


\* C34: every 200 response of the per-symbol earnings handler contains at
\* least one historical earnings record; when no usable historical record
\* remains, all fetched records being dated in the future included, the
\* response is 404 with noData: true.
C34_OkHasHistoricalRecord ==
    (ea.variant = "part_003" /\ ea.pc = "done" /\ ea.resp.statusCode = 200) =>
        \E k \in DOMAIN ea.resp.body.earnings : ~ea.resp.body.earnings[k].isUpcoming


\* C35: if every upstream call and every file operation completes in the
\* end, every invocation of the rating handler returns exactly one response
\* in the end, with status 200, 204, 400 or 500: a started invocation
\* reaches its response, the response is one of the four, and once given it
\* is never replaced.
Responded(r) == req[r].pc = "done" /\ req[r].resp.statusCode \in {200, 204, 400, 500}
C35_EveryInvocationResponds ==
    /\ \A r \in Reqs : (req[r].pc \in {"fetching", "llm"}) ~> Responded(r)
    /\ [](\A r \in Reqs : req[r].pc = "done" => Responded(r))
    /\ [][\A r \in Reqs : req[r].pc = "done" => req'[r].resp = req[r].resp /\ req'[r].pc = "done"]_vars
    /\ [][\A r \in Reqs : req[r].pc = "idle" /\ req'[r].pc # "idle" =>
             req'[r].pc \in {"fetching", "llm"} \/ Responded(r)']_vars

\* an invocation has answered after waiting for the market data and for the
\* model, and the next one has answered without waiting
C35_Witness ==
    \E r, o \in Reqs :
        /\ Responded(r) /\ req[r].llm # NoFacts /\ req[r].resp.statusCode = 200
        /\ Responded(o) /\ req[o].llm = NoFacts /\ req[o].resp.statusCode = 200
=============================================================================
